---- MODULE Spec2Model ----
(***************************************************************************)
(* Dubiex: an on-chain order book.  The order ledger, the pair registry,   *)
(* the kill switch and the meta-transaction entry points are modelled as   *)
(* one state machine; every public entry point is one atomic action (a     *)
(* transaction either commits or reverts as a whole).                      *)
(*                                                                         *)
(* Amounts are scaled down: the 18-decimal unit `ether("1")` is Ether, the *)
(* one-billion supply threshold is oneBillion, the uint96 width is         *)
(* ValueBits.  All arithmetic is written in terms of these names.          *)
(***************************************************************************)
EXTENDS Integers, Sequences, FiniteSets, TLC

\* ---------------------------------------------------------------- bounds
\* orders one maker may create (ids 1..MaxOrders)
MaxOrders == 2
\* tokens minted to each account before trading starts
MintAmount == 3
\* the fixed-point unit of a ratio, ether("1") in the source, scaled down
Ether == 2
\* the kill-switch supply threshold, ether("1000000000") in the source, scaled down
oneBillion == 2
\* width of makerValue/takerValue, uint96 in the source, scaled down
ValueBits == 3
\* meta-transactions one signer may have accepted (nonces 0..MaxNonce)
MaxNonce == 2
\* orders one maker may create where chains of three are followed
MaxChain == 3
\* the most fuel a relayed message may offer, ether("10") in the source, scaled down
MaxBoosterFuel == 2
\* width of orderPairAlias in a packed event, 32 bits in the source, scaled down
AliasBits == 2

\* ------------------------------------------------------- currency types
NULL == 0
ETH == 1
ERC20 == 2
BOOSTABLE_ERC20 == 3
ERC721 == 4

\* ------------------------------------------------------------- accounts
alice == "alice"
bob == "bob"
booster == "booster"
Accounts == {alice, bob}
DUBIEX == "Dubiex"
Holders == Accounts \cup {DUBIEX}

\* ------------------------------------------------------------ contracts
ZERO_ADDRESS == "0x0"
Dubi == "Dubi"
Purpose == "Purpose"
Heroes == "Heroes"
FungibleTokens == {Dubi, Purpose}
\* collectibles minted in the fixtures: hero 1 to alice, hero 2 to bob
TokenIds == {1, 2}

\* ---------------------------------------------------------- revert text
ERR_NONE == "ok"
ERR_MAKE_KILL_SWITCH == "Dubiex: make order prevented by kill switch"
ERR_TAKE_KILL_SWITCH == "Dubiex: take order prevented by kill switch"
ERR_KILL_SWITCH_ON == "Dubiex: kill switch already on"
ERR_KILL_SWITCH_SUPPLY == "Dubiex: insufficient total supply for kill switch"
ERR_NOT_FOUND == "Dubiex: order does not exist"
ERR_NOT_MAKER == "Dubiex: msg.sender must be maker"
ERR_MAKER_VALUE == "Dubiex: makerValue must be greater 0"
ERR_TAKER_VALUE == "Dubiex: takerValue must be greater 0"
ERR_INVALID_TAKER_VALUE == "Dubiex: invalid takerValue"
ERR_RATIO == "Dubiex: ratio is 0"
ERR_ERC721_UPDATE == "Dubiex: cannot update ERC721 value"
ERR_OVERFLOW == "Dubiex: takerValue overflow"
ERR_HAS_SUCCESSOR == "Dubiex: ancestor order already has a successor"
ERR_EMPTY_INPUT == "Dubiex: empty input"
ERR_BAD_SIGNATURE == "AB-5"
ERR_BALANCE == "ERC20-10"
ERR_NOT_OWNER == "ERC721-6"
ERR_ZERO_ADDRESS == "Dubiex: expected zero address"
ERR_NOT_BOOSTABLE == "Dubiex: not BoostableERC20 compliant"
ERR_ERC20_IS_ERC721 == "Dubiex: ERC20 implements ERC721"
ERR_NON_CONTRACT == "Address: call to non-contract"
ERR_REVERT == "revert"
ERR_NO_ANCESTOR == "Dubiex: ancestor order does not exist"
ERR_DIV_BY_ZERO == "division by zero"
ERR_NONCE == "invalid nonce"
ERR_FUEL_MAX == "DUBI-5"
ERR_FUEL_BALANCE == "DUBI-7"
ERR_DEPOSIT == "Dubiex: failed to deposit. not enough funds?"

VARIABLES
    orders,          \* [maker -> [id -> order]], the order book
    orderCount,      \* [maker -> number of orders created], the per-maker id counter
    balances,        \* [holder -> [fungible token -> amount]]
    heroOwner,       \* [token id -> holder], owner of each Heroes collectible
    pairAliases,     \* sequence of registered order pairs; the alias is the index
    nonces,          \* [signer -> meta-transaction nonce]
    killSwitchIsOn,  \* the kill-switch flag
    totalSupply,     \* [PRPS/DUBI -> total supply], read by activateKillSwitch
    orderEvent       \* the order event a client packs and unpacks, and how far it got

vars == <<orders, orderCount, balances, heroOwner, pairAliases, nonces,
          killSwitchIsOn, totalSupply, orderEvent>>

\* the contract's storage and the token ledgers, as one value; excessEth is
\* what is left of the native currency a call sent, nothing between calls
State == [orders |-> orders, orderCount |-> orderCount, balances |-> balances,
          heroOwner |-> heroOwner, pairAliases |-> pairAliases, nonces |-> nonces,
          excessEth |-> 0]

ledger == <<orders, orderCount, balances, heroOwner, pairAliases, nonces>>

\* 2^n
RECURSIVE Pow2(_)
Pow2(n) == IF n = 0 THEN 1 ELSE 2 * Pow2(n - 1)

\* one past the largest makerValue/takerValue an order can store
ValueLimit == Pow2(ValueBits)

\* ------------------------------------------------------------ data model
nullPair == [makerContractAddress |-> ZERO_ADDRESS, takerContractAddress |-> ZERO_ADDRESS,
             makerCurrencyType |-> NULL, takerCurrencyType |-> NULL]

\* what getOrder returns for an order that does not exist
nullOrder == [id |-> 0, makerValue |-> 0, takerValue |-> 0, pair |-> nullPair,
              ancestorOrderId |-> 0, successorOrderId |-> 0, isHidden |-> FALSE]

OrderPair(mc, mt, tc, tt) ==
    [makerContractAddress |-> mc, takerContractAddress |-> tc,
     makerCurrencyType |-> mt, takerCurrencyType |-> tt]

getOrder(s, maker, id) ==
    IF maker \in Accounts /\ id \in DOMAIN s.orders[maker] THEN s.orders[maker][id] ELSE nullOrder

\* expectDeletedOrder: every field of a destroyed order reads as zero
isDeletedOrder(o) ==
    /\ o.id = 0
    /\ o.ancestorOrderId = 0
    /\ o.successorOrderId = 0
    /\ o.makerValue = 0
    /\ o.takerValue = 0

\* the registry's compatibility table: why a contract address cannot be used
\* as the given currency type, ERR_NONE when it can
validateCurrency(contractAddress, currencyType) ==
    CASE currencyType = ETH ->
            IF contractAddress = ZERO_ADDRESS THEN ERR_NONE ELSE ERR_ZERO_ADDRESS
      [] currencyType = ERC721 ->
            IF contractAddress = Heroes THEN ERR_NONE ELSE ERR_REVERT
      [] currencyType = BOOSTABLE_ERC20 ->
            IF contractAddress \in {Purpose, Dubi} THEN ERR_NONE ELSE ERR_NOT_BOOSTABLE
      [] currencyType = ERC20 ->
            IF contractAddress \in {Purpose, Dubi} THEN ERR_NONE
            ELSE IF contractAddress = Heroes THEN ERR_ERC20_IS_ERC721
            ELSE ERR_NON_CONTRACT
      [] OTHER -> ERR_REVERT

\* the first incompatibility of a pair, maker side first
validatePair(pair) ==
    IF validateCurrency(pair.makerContractAddress, pair.makerCurrencyType) # ERR_NONE
    THEN validateCurrency(pair.makerContractAddress, pair.makerCurrencyType)
    ELSE validateCurrency(pair.takerContractAddress, pair.takerCurrencyType)

isFungiblePair(pair) ==
    pair.makerCurrencyType # ERC721 /\ pair.takerCurrencyType # ERC721

\* alias of a pair: its 1-based position in the registry, 0 when unknown
getOrderPairAlias(aliases, pair) ==
    IF \E i \in 1..Len(aliases) : aliases[i] = pair
    THEN CHOOSE i \in 1..Len(aliases) : aliases[i] = pair
    ELSE 0

getOrderPairByAlias(aliases, a) ==
    IF a \in 1..Len(aliases) THEN aliases[a] ELSE nullPair

\* seeded fault: an unseen pair is registered in front of the others
getOrCreateOrderPairAliasFirst(aliases, pair) ==
    IF getOrderPairAlias(aliases, pair) # 0 THEN aliases ELSE <<pair>> \o aliases

\* seeded fault: a pair is taken for registered when a registered pair has its
\* two contracts, whatever the currency types
getOrCreateOrderPairAliasByContracts(aliases, pair) ==
    IF \E i \in 1..Len(aliases) :
          /\ aliases[i].makerContractAddress = pair.makerContractAddress
          /\ aliases[i].takerContractAddress = pair.takerContractAddress
    THEN aliases
    ELSE Append(aliases, pair)

\* resolve: look the pair up, register it under the next alias when unseen
getOrCreateOrderPairAlias(aliases, pair) ==
    IF getOrderPairAlias(aliases, pair) # 0 THEN aliases ELSE Append(aliases, pair)

\* ------------------------------------------------------- call outcomes
\* a call either commits a new state or reverts to the state it started in
Ok(s) == [err |-> ERR_NONE, s |-> s]
Revert(e, s) == [err |-> e, s |-> s]

\* --------------------------------------------------- Currency Registry
\* move `value` of an asset between holders; for ERC721 `value` is the token id.
\* Native currency is held under the zero address: the exchange pays it out of
\* its holding, and an account pays it out of what it sent with the call,
\* which the exchange already holds
transfer(s, contractAddress, currencyType, from, to, value) ==
    IF currencyType = ERC721
    THEN IF value \in TokenIds /\ s.heroOwner[value] = from
         THEN Ok([s EXCEPT !.heroOwner[value] = to])
         ELSE Revert(ERR_NOT_OWNER, s)
    ELSE IF currencyType = ETH
    THEN IF from # DUBIEX /\ s.excessEth < value THEN Revert(ERR_DEPOSIT, s)
         ELSE IF s.balances[DUBIEX][ZERO_ADDRESS] < value THEN Revert(ERR_REVERT, s)
         ELSE Ok([s EXCEPT !.excessEth = IF from = DUBIEX THEN @ ELSE @ - value,
                           !.balances[DUBIEX][ZERO_ADDRESS] = @ - value,
                           !.balances[to][ZERO_ADDRESS] = @ + value])
    ELSE IF contractAddress \in FungibleTokens /\ s.balances[from][contractAddress] >= value
         THEN Ok([s EXCEPT !.balances[from][contractAddress] = @ - value,
                           !.balances[to][contractAddress] = @ + value])
         ELSE Revert(ERR_BALANCE, s)

\* ---------------------------------------------------------- fill values
\* seeded fault: the maker amount is not scaled to the part that is filled
calculateValuesUnscaled(makerCurrencyType, takerCurrencyType, orderMakerValue, orderTakerValue, takerValue) ==
    [makerValue |-> orderMakerValue,
     takerValue |-> IF takerValue > orderTakerValue THEN orderTakerValue ELSE takerValue]

\* the amounts one fill moves: what the taker pays and what the taker gets
\* seeded fault: every fill takes the whole order, whatever part was asked for
calculateValuesWhole(makerCurrencyType, takerCurrencyType, orderMakerValue, orderTakerValue, takerValue) ==
    [makerValue |-> orderMakerValue, takerValue |-> orderTakerValue]

calculateValues(makerCurrencyType, takerCurrencyType, orderMakerValue, orderTakerValue, takerValue) ==
    IF makerCurrencyType = ERC721 \/ takerCurrencyType = ERC721
    THEN [makerValue |-> orderMakerValue, takerValue |-> takerValue]
    ELSE LET filled == IF takerValue > orderTakerValue THEN orderTakerValue ELSE takerValue
         IN  [makerValue |-> (((orderMakerValue * Ether) * filled) \div orderTakerValue) \div Ether,
              takerValue |-> filled]

\* seeded fault: the price is taken as maker units per taker unit
takerMakerRatioInverse(o) == (o.makerValue * Ether) \div o.takerValue

\* the order's price, taker units per maker unit, as a fixed-point number
takerMakerRatio(o) == (o.takerValue * Ether) \div o.makerValue

\* ------------------------------------------------------- Order Ledger
setOrder(s, maker, o) == [s EXCEPT !.orders[maker][o.id] = o]

\* seeded fault: destroying an order reveals its successor, also on a cancel
deleteOrderRevealing(s, maker, id) ==
    LET successorOrderId == s.orders[maker][id].successorOrderId IN
    IF successorOrderId = 0 THEN [s EXCEPT !.orders[maker][id] = nullOrder]
    ELSE [s EXCEPT !.orders[maker][id] = nullOrder,
                   !.orders[maker][successorOrderId].isHidden = FALSE]

deleteOrder(s, maker, id) == [s EXCEPT !.orders[maker][id] = nullOrder]

\* clear the hidden flag of a successor, if that successor still exists
revealSuccessor(s, maker, successorOrderId) ==
    IF getOrder(s, maker, successorOrderId).id = 0
    THEN s
    ELSE [s EXCEPT !.orders[maker][successorOrderId].isHidden = FALSE]

\* seeded fault: a hidden order can be filled
isFillableHidden(o) == o.id # 0

\* seeded fault: an order that does not exist can be filled
isFillableAbsent(o) == ~o.isHidden

\* an order can be filled when it exists and is not hidden
isFillable(o) == o.id # 0 /\ ~o.isHidden

\* seeded fault: an order that involves an ERC721 can be filled in part
isFillAmountAny(o, takerValue) == TRUE

\* an order that involves an ERC721 is filled whole or not at all
isFillAmount(o, takerValue) == isFungiblePair(o.pair) \/ takerValue = o.takerValue

\* seeded fault: a partial fill leaves the makerValue of the order as it was
takeOrderInternalKeepingOffer(s, taker, input) ==
    LET o == getOrder(s, input.maker, input.id) IN
    IF ~isFillable(o) THEN Revert(ERR_NOT_FOUND, s)
    ELSE IF input.takerValue = 0 THEN Revert(ERR_TAKER_VALUE, s)
    ELSE IF o.takerValue = 0 THEN Revert(ERR_DIV_BY_ZERO, s)
    ELSE IF ~isFillAmount(o, input.takerValue) THEN Revert(ERR_INVALID_TAKER_VALUE, s)
    ELSE IF takerMakerRatio(o) > input.maxTakerMakerRatio
         THEN Revert(ERR_INVALID_TAKER_VALUE, s)
    ELSE
      LET v == calculateValues(o.pair.makerCurrencyType, o.pair.takerCurrencyType,
                               o.makerValue, o.takerValue, input.takerValue)
          paid == transfer(s, o.pair.takerContractAddress, o.pair.takerCurrencyType,
                           taker, input.maker, v.takerValue)
          got == transfer(paid.s, o.pair.makerContractAddress, o.pair.makerCurrencyType,
                          DUBIEX, taker, v.makerValue)
          filled == v.takerValue = o.takerValue
          rest == [o EXCEPT !.takerValue = @ - v.takerValue]
      IN IF paid.err # ERR_NONE THEN Revert(paid.err, s)
         ELSE IF got.err # ERR_NONE THEN Revert(got.err, s)
         ELSE IF filled
              THEN Ok(revealSuccessor(deleteOrder(got.s, input.maker, o.id),
                                      input.maker, o.successorOrderId))
              ELSE Ok(setOrder(got.s, input.maker, rest))

\* Fill: input is [maker, id, takerValue, maxTakerMakerRatio]
takeOrderInternal(s, taker, input) ==
    LET o == getOrder(s, input.maker, input.id) IN
    IF ~isFillable(o) THEN Revert(ERR_NOT_FOUND, s)
    ELSE IF input.takerValue = 0 THEN Revert(ERR_TAKER_VALUE, s)
    ELSE IF o.takerValue = 0 THEN Revert(ERR_DIV_BY_ZERO, s)
    ELSE IF ~isFillAmount(o, input.takerValue) THEN Revert(ERR_INVALID_TAKER_VALUE, s)
    ELSE IF takerMakerRatio(o) > input.maxTakerMakerRatio
         THEN Revert(ERR_INVALID_TAKER_VALUE, s)
    ELSE
      LET v == calculateValues(o.pair.makerCurrencyType, o.pair.takerCurrencyType,
                               o.makerValue, o.takerValue, input.takerValue)
          paid == transfer(s, o.pair.takerContractAddress, o.pair.takerCurrencyType,
                           taker, input.maker, v.takerValue)
          got == transfer(paid.s, o.pair.makerContractAddress, o.pair.makerCurrencyType,
                          DUBIEX, taker, v.makerValue)
          filled == v.takerValue = o.takerValue
          rest == [o EXCEPT !.makerValue = @ - v.makerValue, !.takerValue = @ - v.takerValue]
      IN IF paid.err # ERR_NONE THEN Revert(paid.err, s)
         ELSE IF got.err # ERR_NONE THEN Revert(got.err, s)
         ELSE IF filled
              THEN Ok(revealSuccessor(deleteOrder(got.s, input.maker, o.id),
                                      input.maker, o.successorOrderId))
              ELSE Ok(setOrder(got.s, input.maker, rest))

\* seeded fault: anyone may cancel any order
mayCancelAnyone(sender, maker, killSwitch) == TRUE

\* seeded fault: what a cancelled order still held goes to the caller
refundRecipientCaller(sender, maker) == sender

\* who receives what a cancelled order still held: the maker, whoever cancels
refundRecipient(sender, maker) == maker

\* who may cancel an order: its maker, and anyone once the kill switch is on
mayCancel(sender, maker, killSwitch) == sender = maker \/ killSwitch

\* seeded fault: a hidden order cannot be cancelled
cancelOrderInternalVisibleOnly(s, sender, input, killSwitch) ==
    LET o == getOrder(s, input.maker, input.id) IN
    IF ~isFillable(o) THEN Revert(ERR_NOT_FOUND, s)
    ELSE IF ~mayCancel(sender, input.maker, killSwitch) THEN Revert(ERR_NOT_MAKER, s)
    ELSE
      LET refund == transfer(s, o.pair.makerContractAddress, o.pair.makerCurrencyType,
                             DUBIEX, refundRecipient(sender, input.maker), o.makerValue)
      IN IF refund.err # ERR_NONE THEN Revert(refund.err, s)
         ELSE Ok(deleteOrder(refund.s, input.maker, o.id))

\* Cancel: input is [maker, id]
cancelOrderInternal(s, sender, input, killSwitch) ==
    LET o == getOrder(s, input.maker, input.id) IN
    IF o.id = 0 THEN Revert(ERR_NOT_FOUND, s)
    ELSE IF ~mayCancel(sender, input.maker, killSwitch) THEN Revert(ERR_NOT_MAKER, s)
    ELSE
      LET refund == transfer(s, o.pair.makerContractAddress, o.pair.makerCurrencyType,
                             DUBIEX, refundRecipient(sender, input.maker), o.makerValue)
      IN IF refund.err # ERR_NONE THEN Revert(refund.err, s)
         ELSE Ok(deleteOrder(refund.s, input.maker, o.id))

\* seeded fault: the new price is applied to the makerValue the request carries
updatedTakerValueOfRequest(o, input) == (input.makerValue * input.updatedRatioWei) \div Ether

\* the takerValue an update gives an order: the new price, a fixed-point
\* number, applied to what the order still offers
updatedTakerValue(o, input) == (o.makerValue * input.updatedRatioWei) \div Ether

\* seeded fault: an order that involves an ERC721 can be repriced like any other
isUpdatableAny(pair) == TRUE

\* an order can be repriced when neither of its assets is an ERC721
isUpdatable(pair) == isFungiblePair(pair)

\* Update: input is a make-order request with orderId # 0
\* seeded fault: an update also takes over the makerValue of the request
updateOrderInternalRewriting(s, maker, input, revertOnUpdateError) ==
    LET o == getOrder(s, maker, input.orderId) IN
    IF o.id = 0 THEN (IF revertOnUpdateError THEN Revert(ERR_NOT_FOUND, s) ELSE Ok(s))
    ELSE IF input.updatedRatioWei = 0 THEN Revert(ERR_RATIO, s)
    ELSE IF ~isUpdatable(o.pair) THEN Revert(ERR_ERC721_UPDATE, s)
    ELSE IF updatedTakerValue(o, input) >= ValueLimit THEN Revert(ERR_OVERFLOW, s)
    ELSE Ok(setOrder(s, maker, [o EXCEPT !.makerValue = input.makerValue,
                                         !.takerValue = updatedTakerValue(o, input)]))

\* seeded fault: a hidden order cannot be updated
updateOrderInternalVisibleOnly(s, maker, input, revertOnUpdateError) ==
    LET o == getOrder(s, maker, input.orderId) IN
    IF o.id = 0 THEN (IF revertOnUpdateError THEN Revert(ERR_NOT_FOUND, s) ELSE Ok(s))
    ELSE IF o.isHidden THEN Revert(ERR_NOT_FOUND, s)
    ELSE IF input.updatedRatioWei = 0 THEN Revert(ERR_RATIO, s)
    ELSE IF ~isUpdatable(o.pair) THEN Revert(ERR_ERC721_UPDATE, s)
    ELSE IF updatedTakerValue(o, input) >= ValueLimit THEN Revert(ERR_OVERFLOW, s)
    ELSE Ok(setOrder(s, maker, [o EXCEPT !.takerValue = updatedTakerValue(o, input)]))

\* seeded fault: an update of an order that does not exist always fails
updateOrderInternalStrict(s, maker, input, revertOnUpdateError) ==
    LET o == getOrder(s, maker, input.orderId) IN
    IF o.id = 0 THEN Revert(ERR_NOT_FOUND, s)
    ELSE IF input.updatedRatioWei = 0 THEN Revert(ERR_RATIO, s)
    ELSE IF ~isUpdatable(o.pair) THEN Revert(ERR_ERC721_UPDATE, s)
    ELSE IF updatedTakerValue(o, input) >= ValueLimit THEN Revert(ERR_OVERFLOW, s)
    ELSE Ok(setOrder(s, maker, [o EXCEPT !.takerValue = updatedTakerValue(o, input)]))

updateOrderInternal(s, maker, input, revertOnUpdateError) ==
    LET o == getOrder(s, maker, input.orderId) IN
    IF o.id = 0 THEN (IF revertOnUpdateError THEN Revert(ERR_NOT_FOUND, s) ELSE Ok(s))
    ELSE IF input.updatedRatioWei = 0 THEN Revert(ERR_RATIO, s)
    ELSE IF ~isUpdatable(o.pair) THEN Revert(ERR_ERC721_UPDATE, s)
    ELSE IF updatedTakerValue(o, input) >= ValueLimit THEN Revert(ERR_OVERFLOW, s)
    ELSE Ok(setOrder(s, maker, [o EXCEPT !.takerValue = updatedTakerValue(o, input)]))

\* seeded fault: an order created behind an ancestor is visible at once
newOrderVisible(id, input) ==
    [id |-> id, makerValue |-> input.makerValue, takerValue |-> input.takerValue,
     pair |-> input.pair, ancestorOrderId |-> input.ancestorOrderId,
     successorOrderId |-> 0, isHidden |-> FALSE]

\* the order a create request stores: hidden when it names an ancestor
newOrder(id, input) ==
    [id |-> id, makerValue |-> input.makerValue, takerValue |-> input.takerValue,
     pair |-> input.pair, ancestorOrderId |-> input.ancestorOrderId,
     successorOrderId |-> 0, isHidden |-> input.ancestorOrderId # 0]

\* seeded fault: a new order takes the lowest id the maker has no order at
nextOrderIdFree(s, maker) ==
    IF \E i \in 1..s.orderCount[maker] : s.orders[maker][i].id = 0
    THEN CHOOSE i \in 1..s.orderCount[maker] :
            /\ s.orders[maker][i].id = 0
            /\ \A j \in 1..(i - 1) : s.orders[maker][j].id # 0
    ELSE s.orderCount[maker] + 1

\* the id of the maker's next order: one more than the orders the maker has created
nextOrderId(s, maker) == s.orderCount[maker] + 1

\* Create: input is a make-order request with orderId = 0
\* seeded fault: an ancestor is never taken to have a successor
hasSuccessorNever(o) == FALSE

\* the ancestor is already the head of a chain link
hasSuccessor(o) == o.successorOrderId # 0

\* seeded fault: the ancestor is not told of its successor
createOrderInternalUnlinked(s, maker, input) ==
    LET ancestor == getOrder(s, maker, input.ancestorOrderId)
        id == nextOrderId(s, maker)
        deposit == transfer(s, input.pair.makerContractAddress, input.pair.makerCurrencyType,
                            maker, DUBIEX, input.makerValue)
        o == newOrder(id, input)
        linked == deposit.s
    IN
    IF input.makerValue = 0 THEN Revert(ERR_MAKER_VALUE, s)
    ELSE IF input.takerValue = 0 THEN Revert(ERR_TAKER_VALUE, s)
    ELSE IF validatePair(input.pair) # ERR_NONE THEN Revert(validatePair(input.pair), s)
    ELSE IF input.ancestorOrderId # 0 /\ ancestor.id = 0 THEN Revert(ERR_NO_ANCESTOR, s)
    ELSE IF input.ancestorOrderId # 0 /\ hasSuccessor(ancestor)
         THEN Revert(ERR_HAS_SUCCESSOR, s)
    ELSE IF deposit.err # ERR_NONE THEN Revert(deposit.err, s)
    ELSE Ok([setOrder(linked, maker, o) EXCEPT
                !.orderCount[maker] = id,
                !.pairAliases = getOrCreateOrderPairAlias(@, input.pair)])

createOrderInternal(s, maker, input) ==
    LET ancestor == getOrder(s, maker, input.ancestorOrderId)
        id == nextOrderId(s, maker)
        deposit == transfer(s, input.pair.makerContractAddress, input.pair.makerCurrencyType,
                            maker, DUBIEX, input.makerValue)
        o == newOrder(id, input)
        linked == IF input.ancestorOrderId = 0 THEN deposit.s
                  ELSE [deposit.s EXCEPT !.orders[maker][input.ancestorOrderId].successorOrderId = id]
    IN
    IF input.makerValue = 0 THEN Revert(ERR_MAKER_VALUE, s)
    ELSE IF input.takerValue = 0 THEN Revert(ERR_TAKER_VALUE, s)
    ELSE IF validatePair(input.pair) # ERR_NONE THEN Revert(validatePair(input.pair), s)
    ELSE IF input.ancestorOrderId # 0 /\ ancestor.id = 0 THEN Revert(ERR_NO_ANCESTOR, s)
    ELSE IF input.ancestorOrderId # 0 /\ hasSuccessor(ancestor)
         THEN Revert(ERR_HAS_SUCCESSOR, s)
    ELSE IF deposit.err # ERR_NONE THEN Revert(deposit.err, s)
    ELSE Ok([setOrder(linked, maker, o) EXCEPT
                !.orderCount[maker] = id,
                !.pairAliases = getOrCreateOrderPairAlias(@, input.pair)])

makeOrderInternal(s, maker, input, revertOnUpdateError) ==
    IF input.orderId # 0
    THEN updateOrderInternal(s, maker, input, revertOnUpdateError)
    ELSE createOrderInternal(s, maker, input)

\* ------------------------------------------------------ Batch Dispatcher
\* seeded fault: the items before the one that fails stay applied
RECURSIVE makeOrdersInternalPartial(_, _, _, _)
makeOrdersInternalPartial(s0, s, maker, inputs) ==
    IF inputs = <<>> THEN Ok(s)
    ELSE LET r == makeOrderInternal(s, maker, Head(inputs), FALSE)
         IN  IF r.err # ERR_NONE THEN Revert(r.err, s)
             ELSE makeOrdersInternalPartial(s0, r.s, maker, Tail(inputs))

\* atomic: apply every item in list order, the first failure fails the call
RECURSIVE makeOrdersInternal(_, _, _, _)
makeOrdersInternal(s0, s, maker, inputs) ==
    IF inputs = <<>> THEN Ok(s)
    ELSE LET r == makeOrderInternal(s, maker, Head(inputs), FALSE)
         IN  IF r.err # ERR_NONE THEN Revert(r.err, s0)
             ELSE makeOrdersInternal(s0, r.s, maker, Tail(inputs))

\* seeded fault: an isolated batch skips nothing, any failing fill fails the call
isSkippedTakeNever(err) == FALSE

\* failures of one fill that an isolated batch skips
isSkippedTake(err) ==
    err \in {ERR_NOT_FOUND, ERR_TAKER_VALUE, ERR_INVALID_TAKER_VALUE, ERR_DIV_BY_ZERO}

\* seeded fault: the items of a fill batch are applied last to first
RECURSIVE takeOrdersInternalBackwards(_, _, _, _)
takeOrdersInternalBackwards(s0, s, taker, inputs) ==
    IF inputs = <<>> THEN Ok(s)
    ELSE LET last == inputs[Len(inputs)]
             r == takeOrderInternal(s, taker, last)
             front == SubSeq(inputs, 1, Len(inputs) - 1)
         IN  IF r.err = ERR_NONE THEN takeOrdersInternalBackwards(s0, r.s, taker, front)
             ELSE IF isSkippedTake(r.err) THEN takeOrdersInternalBackwards(s0, s, taker, front)
             ELSE Revert(r.err, s0)

\* isolated: an item that cannot be filled is skipped; a failed settlement fails the call
RECURSIVE takeOrdersInternal(_, _, _, _)
takeOrdersInternal(s0, s, taker, inputs) ==
    IF inputs = <<>> THEN Ok(s)
    ELSE LET r == takeOrderInternal(s, taker, Head(inputs))
         IN  IF r.err = ERR_NONE THEN takeOrdersInternal(s0, r.s, taker, Tail(inputs))
             ELSE IF isSkippedTake(r.err) THEN takeOrdersInternal(s0, s, taker, Tail(inputs))
             ELSE Revert(r.err, s0)

\* seeded fault: a cancel batch skips every item that fails
isSkippedCancelAny(err) == TRUE

\* a cancel batch skips an item whose order does not exist; an item the caller
\* may not cancel fails the call
isSkippedCancel(err) == err = ERR_NOT_FOUND

\* isolated: an item naming a missing order is skipped
RECURSIVE cancelOrdersInternal(_, _, _, _, _)
cancelOrdersInternal(s0, s, sender, inputs, killSwitch) ==
    IF inputs = <<>> THEN Ok(s)
    ELSE LET r == cancelOrderInternal(s, sender, Head(inputs), killSwitch)
         IN  IF r.err = ERR_NONE
             THEN cancelOrdersInternal(s0, r.s, sender, Tail(inputs), killSwitch)
             ELSE IF isSkippedCancel(r.err)
             THEN cancelOrdersInternal(s0, s, sender, Tail(inputs), killSwitch)
             ELSE Revert(r.err, s0)

\* ---------------------------------------------------------- entry points
\* the native currency a call carries reaches the exchange before the call runs
receiveValue(s, sender, value) ==
    [s EXCEPT !.balances[sender][ZERO_ADDRESS] = @ - value,
              !.balances[DUBIEX][ZERO_ADDRESS] = @ + value,
              !.excessEth = value]

\* seeded fault: what the call did not use stays with the exchange
keepExcessEth(s0, sender, r) ==
    IF r.err # ERR_NONE THEN Revert(r.err, s0)
    ELSE Ok([r.s EXCEPT !.excessEth = 0])

\* at the end of a call that went through, what it did not use of the native
\* currency it carried goes back to the sender, once; a call that fails gives
\* back all of it with everything else
refundExcessEth(s0, sender, r) ==
    IF r.err # ERR_NONE THEN Revert(r.err, s0)
    ELSE Ok([r.s EXCEPT !.balances[DUBIEX][ZERO_ADDRESS] = @ - r.s.excessEth,
                        !.balances[sender][ZERO_ADDRESS] = @ + r.s.excessEth,
                        !.excessEth = 0])

callMakeOrder(s, killSwitch, sender, input) ==
    IF killSwitch THEN Revert(ERR_MAKE_KILL_SWITCH, s)
    ELSE makeOrderInternal(s, sender, input, TRUE)

callMakeOrders(s, killSwitch, sender, inputs) ==
    IF killSwitch THEN Revert(ERR_MAKE_KILL_SWITCH, s)
    ELSE IF inputs = <<>> THEN Revert(ERR_EMPTY_INPUT, s)
    ELSE makeOrdersInternal(s, s, sender, inputs)

callTakeOrder(s, killSwitch, sender, input) ==
    IF killSwitch THEN Revert(ERR_TAKE_KILL_SWITCH, s)
    ELSE takeOrderInternal(s, sender, input)

\* seeded fault: the fill batch does not look at the kill switch
callTakeOrdersUnguarded(s, killSwitch, sender, inputs) ==
    IF inputs = <<>> THEN Revert(ERR_EMPTY_INPUT, s)
    ELSE takeOrdersInternal(s, s, sender, inputs)

callTakeOrders(s, killSwitch, sender, inputs) ==
    IF killSwitch THEN Revert(ERR_TAKE_KILL_SWITCH, s)
    ELSE IF inputs = <<>> THEN Revert(ERR_EMPTY_INPUT, s)
    ELSE takeOrdersInternal(s, s, sender, inputs)

callCancelOrder(s, killSwitch, sender, input) ==
    cancelOrderInternal(s, sender, input, killSwitch)

callCancelOrders(s, killSwitch, sender, inputs) ==
    IF inputs = <<>> THEN Revert(ERR_EMPTY_INPUT, s)
    ELSE cancelOrdersInternal(s, s, sender, inputs, killSwitch)

\* the entry points as calls that carry native currency; a call above carries none
payMakeOrders(s, killSwitch, sender, value, inputs) ==
    refundExcessEth(s, sender,
        callMakeOrders(receiveValue(s, sender, value), killSwitch, sender, inputs))

payTakeOrder(s, killSwitch, sender, value, input) ==
    refundExcessEth(s, sender,
        callTakeOrder(receiveValue(s, sender, value), killSwitch, sender, input))

payTakeOrders(s, killSwitch, sender, value, inputs) ==
    refundExcessEth(s, sender,
        callTakeOrders(receiveValue(s, sender, value), killSwitch, sender, inputs))

\* ------------------------------------------------- Meta-Transaction Relay
\* a boosted message is [input, signer, signedBy, nonce]: `signer` is the account
\* the message claims to act for, `signedBy` the account the signature recovers to

\* seeded fault: the signature of a relayed message is not looked at
verifyBoostUnsigned(s, message, withNonce) ==
    IF withNonce /\ message.nonce # s.nonces[message.signer] + 1 THEN ERR_NONCE
    ELSE ERR_NONE

verifyBoost(s, message, withNonce) ==
    IF message.signedBy # message.signer THEN ERR_BAD_SIGNATURE
    ELSE IF withNonce /\ message.nonce # s.nonces[message.signer] + 1 THEN ERR_NONCE
    ELSE ERR_NONE

\* seeded fault: every relayed operation is checked against the nonce and uses it up
usesNonceAlways(currencyType) == TRUE

\* the nonce protects a relayed operation that debits a fungible asset: one that
\* hands over an ERC721 is neither checked against the nonce nor uses it up
usesNonce(currencyType) == currencyType # ERC721

\* seeded fault: an accepted message leaves the nonce as it was
bumpNonceNever(s, signer) == s

\* seeded fault: an accepted message uses up two nonces
bumpNonceTwice(s, signer) == [s EXCEPT !.nonces[signer] = @ + 2]

bumpNonce(s, signer) == [s EXCEPT !.nonces[signer] = @ + 1]

\* the DUBI a message offers its relayer; a message may leave the fuel out
fuelOf(message) == IF "fuel" \in DOMAIN message THEN message.fuel ELSE 0

\* seeded fault: fuel above the maximum is burned like any other
burnFuelUncapped(s, signer, fuel) ==
    IF fuel = 0 THEN Ok(s)
    ELSE IF s.balances[signer][Dubi] < fuel THEN Revert(ERR_FUEL_BALANCE, s)
    ELSE Ok([s EXCEPT !.balances[signer][Dubi] = @ - fuel])

\* the fuel is burned from the signer's DUBI
burnFuel(s, signer, fuel) ==
    IF fuel = 0 THEN Ok(s)
    ELSE IF fuel > MaxBoosterFuel THEN Revert(ERR_FUEL_MAX, s)
    ELSE IF s.balances[signer][Dubi] < fuel THEN Revert(ERR_FUEL_BALANCE, s)
    ELSE Ok([s EXCEPT !.balances[signer][Dubi] = @ - fuel])

\* a boosted make consumes a nonce unless the asset it deposits is an ERC721
boostedMakeOrderInternal(s, message) ==
    LET withNonce == usesNonce(message.input.pair.makerCurrencyType)
        v == verifyBoost(s, message, withNonce)
        f == burnFuel(s, message.signer, fuelOf(message))
        r == makeOrderInternal(f.s, message.signer, message.input, TRUE)
    IN  IF v # ERR_NONE THEN Revert(v, s)
        ELSE IF f.err # ERR_NONE THEN Revert(f.err, s)
        ELSE IF r.err # ERR_NONE THEN Revert(r.err, s)
        ELSE IF withNonce THEN Ok(bumpNonce(r.s, message.signer))
        ELSE Ok(r.s)

\* seeded fault: a relayed fill is settled for the account that signed nothing,
\* the maker of the order, instead of the signer
boostedTakeOrderInternalForMaker(s, message) ==
    LET o == getOrder(s, message.input.maker, message.input.id)
        withNonce == usesNonce(o.pair.takerCurrencyType)
        v == verifyBoost(s, message, withNonce)
        f == burnFuel(s, message.signer, fuelOf(message))
        r == takeOrderInternal(f.s, message.input.maker, message.input)
    IN  IF v # ERR_NONE THEN Revert(v, s)
        ELSE IF f.err # ERR_NONE THEN Revert(f.err, s)
        ELSE IF r.err # ERR_NONE THEN Revert(r.err, s)
        ELSE IF withNonce THEN Ok(bumpNonce(r.s, message.signer))
        ELSE Ok(r.s)

\* a boosted take consumes a nonce unless the asset it pays with is an ERC721
boostedTakeOrderInternal(s, message) ==
    LET o == getOrder(s, message.input.maker, message.input.id)
        withNonce == usesNonce(o.pair.takerCurrencyType)
        v == verifyBoost(s, message, withNonce)
        f == burnFuel(s, message.signer, fuelOf(message))
        r == takeOrderInternal(f.s, message.signer, message.input)
    IN  IF v # ERR_NONE THEN Revert(v, s)
        ELSE IF f.err # ERR_NONE THEN Revert(f.err, s)
        ELSE IF r.err # ERR_NONE THEN Revert(r.err, s)
        ELSE IF withNonce THEN Ok(bumpNonce(r.s, message.signer))
        ELSE Ok(r.s)

\* seeded fault: a relayed cancel is verified against whoever it says it is from
cancelSignerClaimed(message) == message.signer

\* a relayed cancel names no signer of its own: it is verified against the
\* maker of the order it names
cancelSigner(message) == message.input.maker

\* a boosted cancel acts for the maker named in the input, under any kill switch
boostedCancelOrderInternal(s, message) ==
    LET m == [message EXCEPT !.signer = cancelSigner(message)]
        v == verifyBoost(s, m, TRUE)
        f == burnFuel(s, m.signer, fuelOf(m))
        r == cancelOrderInternal(f.s, m.signer, m.input, FALSE)
    IN  IF v # ERR_NONE THEN Revert(v, s)
        ELSE IF f.err # ERR_NONE THEN Revert(f.err, s)
        ELSE IF r.err # ERR_NONE THEN Revert(r.err, s)
        ELSE Ok(bumpNonce(r.s, m.signer))

callBoostedMakeOrder(s, killSwitch, message) ==
    IF killSwitch THEN Revert(ERR_MAKE_KILL_SWITCH, s)
    ELSE boostedMakeOrderInternal(s, message)

callBoostedTakeOrder(s, killSwitch, message) ==
    IF killSwitch THEN Revert(ERR_TAKE_KILL_SWITCH, s)
    ELSE boostedTakeOrderInternal(s, message)

callBoostedCancelOrder(s, killSwitch, message) ==
    boostedCancelOrderInternal(s, message)

\* atomic: every message is verified and applied in list order
RECURSIVE boostedMakeOrderBatchInternal(_, _, _)
boostedMakeOrderBatchInternal(s0, s, messages) ==
    IF messages = <<>> THEN Ok(s)
    ELSE LET m == Head(messages)
             withNonce == usesNonce(m.input.pair.makerCurrencyType)
             v == verifyBoost(s, m, withNonce)
             r == makeOrderInternal(s, m.signer, m.input, FALSE)
             n == IF withNonce THEN bumpNonce(r.s, m.signer) ELSE r.s
         IN  IF v # ERR_NONE THEN Revert(v, s0)
             ELSE IF r.err # ERR_NONE THEN Revert(r.err, s0)
             ELSE boostedMakeOrderBatchInternal(s0, n, Tail(messages))

\* isolated: every message is verified and consumes its nonce; a fill that
\* cannot be applied is skipped
RECURSIVE boostedTakeOrderBatchInternal(_, _, _)
boostedTakeOrderBatchInternal(s0, s, messages) ==
    IF messages = <<>> THEN Ok(s)
    ELSE LET m == Head(messages)
             o == getOrder(s, m.input.maker, m.input.id)
             withNonce == usesNonce(o.pair.takerCurrencyType)
             v == verifyBoost(s, m, withNonce)
             r == takeOrderInternal(s, m.signer, m.input)
             applied == IF r.err = ERR_NONE THEN r.s ELSE s
             n == IF withNonce THEN bumpNonce(applied, m.signer) ELSE applied
         IN  IF v # ERR_NONE THEN Revert(v, s0)
             ELSE IF r.err # ERR_NONE /\ ~isSkippedTake(r.err) THEN Revert(r.err, s0)
             ELSE boostedTakeOrderBatchInternal(s0, n, Tail(messages))

\* isolated: every message is verified and consumes its nonce; a cancel naming
\* a missing order is skipped
RECURSIVE boostedCancelOrderBatchInternal(_, _, _)
boostedCancelOrderBatchInternal(s0, s, messages) ==
    IF messages = <<>> THEN Ok(s)
    ELSE LET m == [Head(messages) EXCEPT !.signer = cancelSigner(Head(messages))]
             v == verifyBoost(s, m, TRUE)
             r == cancelOrderInternal(s, m.signer, m.input, FALSE)
             applied == IF r.err = ERR_NONE THEN r.s ELSE s
         IN  IF v # ERR_NONE THEN Revert(v, s0)
             ELSE IF r.err \notin {ERR_NONE, ERR_NOT_FOUND} THEN Revert(r.err, s0)
             ELSE boostedCancelOrderBatchInternal(s0, bumpNonce(applied, m.signer), Tail(messages))

callBoostedMakeOrderBatch(s, killSwitch, messages) ==
    IF killSwitch THEN Revert(ERR_MAKE_KILL_SWITCH, s)
    ELSE IF messages = <<>> THEN Revert(ERR_EMPTY_INPUT, s)
    ELSE boostedMakeOrderBatchInternal(s, s, messages)

callBoostedTakeOrderBatch(s, killSwitch, messages) ==
    IF killSwitch THEN Revert(ERR_TAKE_KILL_SWITCH, s)
    ELSE IF messages = <<>> THEN Revert(ERR_EMPTY_INPUT, s)
    ELSE boostedTakeOrderBatchInternal(s, s, messages)

callBoostedCancelOrderBatch(s, killSwitch, messages) ==
    IF messages = <<>> THEN Revert(ERR_EMPTY_INPUT, s)
    ELSE boostedCancelOrderBatchInternal(s, s, messages)

\* -------------------------------------------------------- Circuit Breaker
\* seeded fault: only the PRPS supply is looked at
hasKillSwitchSupplyPurposeOnly(supply) == supply[Purpose] >= oneBillion

\* the supply condition of the kill switch
hasKillSwitchSupply(supply) == supply[Purpose] >= oneBillion \/ supply[Dubi] >= oneBillion

\* seeded fault: the flag follows the supplies down again
callActivateKillSwitchRecomputed(killSwitch, supply) ==
    IF hasKillSwitchSupply(supply)
    THEN [err |-> IF killSwitch THEN ERR_KILL_SWITCH_ON ELSE ERR_NONE, on |-> TRUE]
    ELSE [err |-> ERR_KILL_SWITCH_SUPPLY, on |-> FALSE]

\* activateKillSwitch: outcome is the error and the new value of the flag
callActivateKillSwitch(killSwitch, supply) ==
    IF killSwitch THEN [err |-> ERR_KILL_SWITCH_ON, on |-> killSwitch]
    ELSE IF hasKillSwitchSupply(supply)
         THEN [err |-> ERR_NONE, on |-> TRUE]
         ELSE [err |-> ERR_KILL_SWITCH_SUPPLY, on |-> killSwitch]

\* the test helper that sets a token's total supply
setTotalSupply(supply, contract, amount) == [supply EXCEPT ![contract] = amount]

\* ===================================================== packed order events
\* bn.js words are non-negative integers of any length; and, ior, shrn and shln
\* work bit by bit
RECURSIVE and(_, _)
and(a, b) ==
    IF a = 0 \/ b = 0 THEN 0
    ELSE (IF a % 2 = 1 /\ b % 2 = 1 THEN 1 ELSE 0) + 2 * and(a \div 2, b \div 2)

RECURSIVE ior(_, _)
ior(a, b) ==
    IF a = 0 THEN b
    ELSE IF b = 0 THEN a
    ELSE (IF a % 2 = 1 \/ b % 2 = 1 THEN 1 ELSE 0) + 2 * ior(a \div 2, b \div 2)

shrn(a, bits) == a \div Pow2(bits)
shln(a, bits) == a * Pow2(bits)

\* new BN(2).pow(new BN(96)).sub(new BN(1)), with the scaled width
bitmask96 == Pow2(ValueBits) - 1
\* new BN(2).pow(new BN(32)).sub(new BN(1)), with the scaled width
bitmask32 == Pow2(AliasBits) - 1

\* seeded fault: takerValue is shifted by the alias width
packDataFromOrderEventNarrow(makerValue, takerValue, orderPairAlias) ==
    ior(ior(ior(0, and(makerValue, bitmask96)),
            shln(and(takerValue, bitmask96), AliasBits)),
        shln(and(orderPairAlias, bitmask32), 2 * ValueBits))

packDataFromOrderEvent(makerValue, takerValue, orderPairAlias) ==
    ior(ior(ior(0, and(makerValue, bitmask96)),
            shln(and(takerValue, bitmask96), ValueBits)),
        shln(and(orderPairAlias, bitmask32), 2 * ValueBits))

unpackPackedDataFromOrderEvent(packedData) ==
    [makerValue |-> and(packedData, bitmask96),
     takerValue |-> and(shrn(packedData, ValueBits), bitmask96),
     orderPairAlias |-> and(shrn(packedData, 2 * ValueBits), bitmask32)]

noEvent == [step |-> "none"]

\* the events in the receipt of a makeOrder call that went through in state s:
\* UpdatedOrder for a request that names an order, MadeOrder with the packed
\* values and alias for one that creates an order
makeOrderLogs(s, maker, input) ==
    IF input.orderId # 0
    THEN <<[event |-> "UpdatedOrder", maker |-> maker, id |-> input.orderId]>>
    ELSE <<[event |-> "MadeOrder", maker |-> maker, id |-> nextOrderId(s, maker),
            packedData |-> packDataFromOrderEvent(
                input.makerValue, input.takerValue,
                getOrderPairAlias(getOrCreateOrderPairAlias(s.pairAliases, input.pair),
                                  input.pair))]>>

\* ================================================================ actions
\* a call commits the state its outcome carries; a reverted call changes nothing
Commit(r) ==
    /\ orders' = r.s.orders
    /\ orderCount' = r.s.orderCount
    /\ balances' = r.s.balances
    /\ heroOwner' = r.s.heroOwner
    /\ pairAliases' = r.s.pairAliases
    /\ nonces' = r.s.nonces

\* number of items of a make-order list that create an order
RECURSIVE creates(_)
creates(inputs) ==
    IF inputs = <<>> THEN 0
    ELSE (IF Head(inputs).orderId = 0 THEN 1 ELSE 0) + creates(Tail(inputs))

\* the inputs of the messages of a list
inputsOf(messages) == [i \in 1..Len(messages) |-> messages[i].input]

\* sequences of at most two items of a set
Lists(S) == {<<>>} \cup {<<x>> : x \in S} \cup {<<x, y>> : x \in S, y \in S}

\* the id counter and the nonce are capped: a call that would pass the cap is not made
canCreate(maker, inputs) ==
    orderCount[maker] + creates(inputs) <= Cardinality(DOMAIN orders[maker])
canSign(messages) ==
    \A i \in 1..Len(messages) : nonces[messages[i].signer] + Len(messages) <= MaxNonce

makeOrder(senders, inputs) ==
    \E sender \in senders, input \in inputs :
        /\ canCreate(sender, <<input>>)
        /\ Commit(callMakeOrder(State, killSwitchIsOn, sender, input))
        /\ UNCHANGED <<killSwitchIsOn, totalSupply, orderEvent>>

makeOrders(senders, lists) ==
    \E sender \in senders, inputs \in lists :
        /\ canCreate(sender, inputs)
        /\ Commit(callMakeOrders(State, killSwitchIsOn, sender, inputs))
        /\ UNCHANGED <<killSwitchIsOn, totalSupply, orderEvent>>

\* a sender cannot send more native currency than it holds
makeOrdersWithValue(senders, lists) ==
    \E sender \in senders, inputs \in lists :
      \E value \in 0..balances[sender][ZERO_ADDRESS] :
        /\ canCreate(sender, inputs)
        /\ Commit(payMakeOrders(State, killSwitchIsOn, sender, value, inputs))
        /\ UNCHANGED <<killSwitchIsOn, totalSupply, orderEvent>>

takeOrderWithValue(senders, inputs) ==
    \E sender \in senders, input \in inputs :
      \E value \in 0..balances[sender][ZERO_ADDRESS] :
        /\ Commit(payTakeOrder(State, killSwitchIsOn, sender, value, input))
        /\ UNCHANGED <<killSwitchIsOn, totalSupply, orderEvent>>

takeOrdersWithValue(senders, lists) ==
    \E sender \in senders, inputs \in lists :
      \E value \in 0..balances[sender][ZERO_ADDRESS] :
        /\ Commit(payTakeOrders(State, killSwitchIsOn, sender, value, inputs))
        /\ UNCHANGED <<killSwitchIsOn, totalSupply, orderEvent>>

takeOrder(senders, inputs) ==
    \E sender \in senders, input \in inputs :
        /\ Commit(callTakeOrder(State, killSwitchIsOn, sender, input))
        /\ UNCHANGED <<killSwitchIsOn, totalSupply, orderEvent>>

takeOrders(senders, lists) ==
    \E sender \in senders, inputs \in lists :
        /\ Commit(callTakeOrders(State, killSwitchIsOn, sender, inputs))
        /\ UNCHANGED <<killSwitchIsOn, totalSupply, orderEvent>>

cancelOrder(senders, inputs) ==
    \E sender \in senders, input \in inputs :
        /\ Commit(callCancelOrder(State, killSwitchIsOn, sender, input))
        /\ UNCHANGED <<killSwitchIsOn, totalSupply, orderEvent>>

cancelOrders(senders, lists) ==
    \E sender \in senders, inputs \in lists :
        /\ Commit(callCancelOrders(State, killSwitchIsOn, sender, inputs))
        /\ UNCHANGED <<killSwitchIsOn, totalSupply, orderEvent>>

boostedMakeOrder(messages) ==
    \E message \in messages :
        /\ canCreate(message.signer, <<message.input>>)
        /\ canSign(<<message>>)
        /\ Commit(callBoostedMakeOrder(State, killSwitchIsOn, message))
        /\ UNCHANGED <<killSwitchIsOn, totalSupply, orderEvent>>

boostedTakeOrder(messages) ==
    \E message \in messages :
        /\ canSign(<<message>>)
        /\ Commit(callBoostedTakeOrder(State, killSwitchIsOn, message))
        /\ UNCHANGED <<killSwitchIsOn, totalSupply, orderEvent>>

boostedCancelOrder(messages) ==
    \E message \in messages :
        /\ canSign(<<message>>)
        /\ Commit(callBoostedCancelOrder(State, killSwitchIsOn, message))
        /\ UNCHANGED <<killSwitchIsOn, totalSupply, orderEvent>>

boostedMakeOrderBatch(lists) ==
    \E messages \in lists :
        /\ \A i \in 1..Len(messages) : canCreate(messages[i].signer, inputsOf(messages))
        /\ canSign(messages)
        /\ Commit(callBoostedMakeOrderBatch(State, killSwitchIsOn, messages))
        /\ UNCHANGED <<killSwitchIsOn, totalSupply, orderEvent>>

boostedTakeOrderBatch(lists) ==
    \E messages \in lists :
        /\ canSign(messages)
        /\ Commit(callBoostedTakeOrderBatch(State, killSwitchIsOn, messages))
        /\ UNCHANGED <<killSwitchIsOn, totalSupply, orderEvent>>

boostedCancelOrderBatch(lists) ==
    \E messages \in lists :
        /\ canSign(messages)
        /\ Commit(callBoostedCancelOrderBatch(State, killSwitchIsOn, messages))
        /\ UNCHANGED <<killSwitchIsOn, totalSupply, orderEvent>>

activateKillSwitch ==
    /\ killSwitchIsOn' = callActivateKillSwitch(killSwitchIsOn, totalSupply).on
    /\ UNCHANGED <<ledger, totalSupply, orderEvent>>

\* the environment: a monitored token's supply changes
updateTotalSupply(contracts, amounts) ==
    \E contract \in contracts, amount \in amounts :
        /\ totalSupply' = setTotalSupply(totalSupply, contract, amount)
        /\ UNCHANGED <<ledger, killSwitchIsOn, orderEvent>>

\* a client packs the fields of an order event into one word
pack ==
    /\ orderEvent.step = "fields"
    /\ orderEvent' = [orderEvent EXCEPT
           !.step = "packed",
           !.packedData = packDataFromOrderEvent(orderEvent.makerValue, orderEvent.takerValue,
                                                 orderEvent.orderPairAlias)]
    /\ UNCHANGED <<ledger, killSwitchIsOn, totalSupply>>

\* a client unpacks the word of an order event
unpack ==
    /\ orderEvent.step = "packed"
    /\ orderEvent' = [orderEvent EXCEPT
           !.step = "unpacked",
           !.unpacked = unpackPackedDataFromOrderEvent(orderEvent.packedData)]
    /\ UNCHANGED <<ledger, killSwitchIsOn, totalSupply>>

\* ============================================================ the fixture
\* after deployment: no orders, no aliases, alice holds DUBI and hero 1,
\* bob holds PRPS and hero 2, both hold native currency, the monitored supplies are far below the threshold
Deployed(capacity) ==
    /\ orders = [a \in Accounts |-> [i \in 1..capacity |-> nullOrder]]
    /\ orderCount = [a \in Accounts |-> 0]
    /\ balances = [h \in Holders |-> [t \in FungibleTokens \cup {ZERO_ADDRESS} |->
                      IF \/ (h = alice /\ t = Dubi) \/ (h = bob /\ t = Purpose)
                         \/ (h \in Accounts /\ t = ZERO_ADDRESS)
                      THEN MintAmount ELSE 0]]
    /\ heroOwner = [t \in TokenIds |-> IF t = 1 THEN alice ELSE bob]
    /\ pairAliases = <<>>
    /\ nonces = [a \in Accounts |-> 0]
    /\ killSwitchIsOn = FALSE
    /\ totalSupply = [t \in FungibleTokens |-> 0]

\* no client has packed an event yet
Init == Deployed(MaxOrders) /\ orderEvent = noEvent

\* ----------------------------------------------------------- call inputs
DubiPurpose == OrderPair(Dubi, BOOSTABLE_ERC20, Purpose, BOOSTABLE_ERC20)
HeroesPurpose == OrderPair(Heroes, ERC721, Purpose, BOOSTABLE_ERC20)
PurposeDubi == OrderPair(Purpose, BOOSTABLE_ERC20, Dubi, BOOSTABLE_ERC20)
DubiAsERC20Purpose == OrderPair(Dubi, ERC20, Purpose, BOOSTABLE_ERC20)
DubiHeroes == OrderPair(Dubi, BOOSTABLE_ERC20, Heroes, ERC721)
HeroesAsERC20 == OrderPair(Heroes, ERC20, Purpose, BOOSTABLE_ERC20)

MakeOrderInput(makerValue, takerValue, pair, orderId, ancestorOrderId, updatedRatioWei) ==
    [makerValue |-> makerValue, takerValue |-> takerValue, pair |-> pair, orderId |-> orderId,
     ancestorOrderId |-> ancestorOrderId, updatedRatioWei |-> updatedRatioWei]

TakeOrderInput(maker, id, takerValue, maxTakerMakerRatio) ==
    [maker |-> maker, id |-> id, takerValue |-> takerValue,
     maxTakerMakerRatio |-> maxTakerMakerRatio]

CancelOrderInput(maker, id) == [maker |-> maker, id |-> id]

Boosted(input, signer, signedBy, nonce) ==
    [input |-> input, signer |-> signer, signedBy |-> signedBy, nonce |-> nonce]

\* requests that create an order
CreateInputs ==
    {MakeOrderInput(m, t, DubiPurpose, 0, a, 0) : m \in {0, 2, 3}, t \in {0, 2, 3}, a \in 0..MaxOrders}
    \cup {MakeOrderInput(1, 2, HeroesPurpose, 0, 0, 0), MakeOrderInput(1, 2, HeroesAsERC20, 0, 0, 0)}

\* requests that update an order: only the id and the ratio matter
UpdateInputs ==
    {MakeOrderInput(1, 1, nullPair, i, 0, r) : i \in 1..MaxOrders, r \in {0, 1, Ether, 3 * Ether}}

TakeInputs ==
    {TakeOrderInput(alice, i, v, ValueLimit * Ether) : i \in 0..MaxOrders, v \in {0, 1, 2, ValueLimit - 1}}
    \cup {TakeOrderInput(alice, 1, 1, Ether), TakeOrderInput(bob, 1, 1, Ether)}

CancelInputs == {CancelOrderInput(a, i) : a \in Accounts, i \in 0..MaxOrders}

\* the items the batches are built from
MakeItems ==
    {MakeOrderInput(2, 2, DubiPurpose, 0, 0, 0), MakeOrderInput(1, 3, DubiPurpose, 0, 1, 0),
     MakeOrderInput(1, 1, nullPair, 1, 0, Ether), MakeOrderInput(0, 1, DubiPurpose, 0, 0, 0)}

TakeItems ==
    {TakeOrderInput(alice, 1, 1, ValueLimit * Ether), TakeOrderInput(alice, 2, ValueLimit - 1, ValueLimit * Ether),
     TakeOrderInput(alice, 1, 0, ValueLimit * Ether)}

CancelItems == {CancelOrderInput(alice, 1), CancelOrderInput(alice, 2), CancelOrderInput(bob, 1)}

\* ========================================================= specification
\* the direct entry points, with alice making orders and bob taking them, the
\* kill switch and the supply it watches
Next ==
    \/ makeOrder({alice}, CreateInputs \cup UpdateInputs)
    \/ makeOrders({alice}, Lists(MakeItems))
    \/ takeOrder({bob}, TakeInputs)
    \/ takeOrders({bob}, Lists(TakeItems))
    \/ cancelOrder(Accounts, CancelInputs)
    \/ cancelOrders(Accounts, Lists(CancelItems))
    \/ activateKillSwitch
    \/ updateTotalSupply({Purpose}, {oneBillion})

Spec == Init /\ [][Next]_vars

\* ------------------------------------------------- relayed entry points
\* signed requests: alice makes and cancels, bob takes; one message of each
\* kind carries a signature that is not its signer's
RelayMakes ==
    {Boosted(i, alice, alice, n) :
        i \in {MakeOrderInput(2, 2, DubiPurpose, 0, 0, 0), MakeOrderInput(1, 1, nullPair, 1, 0, Ether)},
        n \in 1..MaxNonce}
    \cup {Boosted(MakeOrderInput(2, 2, DubiPurpose, 0, 0, 0), alice, bob, 1)}
    \cup {Boosted(MakeOrderInput(1, 2, HeroesPurpose, 0, 0, 0), alice, alice, n) : n \in {0, MaxNonce}}
    \cup {Boosted(MakeOrderInput(1, 2, DubiHeroes, 0, 0, 0), alice, alice, n) : n \in 1..MaxNonce}

\* bob pays PRPS, or his hero 2 when that is what the order asks for
RelayTakes ==
    {Boosted(TakeOrderInput(alice, 1, v, ValueLimit * Ether), bob, bob, n) :
        v \in {1, 2}, n \in 0..MaxNonce}
    \cup {Boosted(TakeOrderInput(alice, 1, 1, ValueLimit * Ether), bob, alice, 1)}

RelayCancels ==
    {Boosted(CancelOrderInput(alice, i), alice, alice, n) : i \in 1..MaxOrders, n \in 1..MaxNonce}
    \cup {Boosted(CancelOrderInput(alice, 1), bob, bob, 1),
          Boosted(CancelOrderInput(alice, 1), alice, bob, 1)}

\* every entry point, direct and relayed, single and batch, with the kill
\* switch and the supply it watches
NextRelay ==
    \/ makeOrder({alice}, MakeItems)
    \/ makeOrders({alice}, Lists(MakeItems))
    \/ takeOrder({bob}, TakeItems)
    \/ takeOrders({bob}, Lists(TakeItems))
    \/ cancelOrder(Accounts, CancelItems)
    \/ cancelOrders(Accounts, Lists(CancelItems))
    \/ boostedMakeOrder(RelayMakes)
    \/ boostedMakeOrderBatch(Lists(RelayMakes))
    \/ boostedTakeOrder(RelayTakes)
    \/ boostedTakeOrderBatch(Lists(RelayTakes))
    \/ boostedCancelOrder(RelayCancels)
    \/ boostedCancelOrderBatch(Lists(RelayCancels))
    \/ activateKillSwitch
    \/ updateTotalSupply({Purpose}, {oneBillion})

SpecRelay == Init /\ [][NextRelay]_vars

\* ------------------------------------------------------- the kill switch
\* supplies around the threshold
SupplyAmounts == {1, oneBillion - 1, oneBillion, oneBillion + 1}

\* the kill switch under every movement of the two supplies, with orders being
\* made, taken and cancelled around it
NextKillSwitch ==
    \/ activateKillSwitch
    \/ updateTotalSupply(FungibleTokens, SupplyAmounts)
    \/ makeOrder({alice}, MakeItems)
    \/ takeOrder({bob}, TakeItems)
    \/ cancelOrder(Accounts, CancelItems)

SpecKillSwitch == Init /\ [][NextKillSwitch]_vars

\* ------------------------------------------------------------ two makers
\* alice sells DUBI, as a boostable token or as a plain ERC20, and bob sells
\* PRPS; a create of nothing fails
MakerCreates ==
    {MakeOrderInput(m, 1, pair, 0, 0, 0) :
        m \in {0, 1}, pair \in {DubiPurpose, PurposeDubi, DubiAsERC20Purpose}}

MakerTakes == {TakeOrderInput(a, i, 1, ValueLimit * Ether) : a \in Accounts, i \in 1..MaxOrders}

\* both accounts make orders, fill each other's and cancel their own
NextMakers ==
    \/ makeOrder(Accounts, MakerCreates)
    \/ makeOrders(Accounts, Lists(MakerCreates))
    \/ takeOrder(Accounts, MakerTakes)
    \/ cancelOrder(Accounts, CancelInputs)

SpecMakers == Init /\ [][NextMakers]_vars

\* ---------------------------------------------------- chains of three
\* alice links orders of one DUBI for one or two PRPS into chains, bob fills
\* them one PRPS at a time
ChainCreates == {MakeOrderInput(1, t, DubiPurpose, 0, a, 0) : t \in {1, 2}, a \in 0..MaxChain}
ChainTakes == {TakeOrderInput(alice, i, 1, ValueLimit * Ether) : i \in 1..MaxChain}
ChainCancels == {CancelOrderInput(alice, i) : i \in 1..MaxChain}

InitChain == Deployed(MaxChain) /\ orderEvent = noEvent
NextChain ==
    \/ makeOrder({alice}, ChainCreates)
    \/ takeOrder({bob}, ChainTakes)
    \/ cancelOrder(Accounts, ChainCancels)
SpecChain == InitChain /\ [][NextChain]_vars

\* ------------------------------------------------------ native currency
EtherPurpose == OrderPair(ZERO_ADDRESS, ETH, Purpose, BOOSTABLE_ERC20)
DubiEther == OrderPair(Dubi, BOOSTABLE_ERC20, ZERO_ADDRESS, ETH)

\* alice sells native currency for PRPS and DUBI for native currency or PRPS,
\* bob fills her orders for one unit or for more than they ask; both send any
\* amount of native currency they hold with their calls
NextNative ==
    \/ makeOrdersWithValue({alice},
           Lists({MakeOrderInput(1, 1, EtherPurpose, 0, 0, 0), MakeOrderInput(2, 2, DubiEther, 0, 0, 0),
                  MakeOrderInput(2, 1, EtherPurpose, 0, 0, 0), MakeOrderInput(1, 1, DubiPurpose, 0, 0, 0)}))
    \/ takeOrderWithValue({bob},
           {TakeOrderInput(alice, i, v, ValueLimit * Ether) : i \in 1..MaxOrders, v \in {1, MintAmount}})
    \/ takeOrdersWithValue({bob},
           Lists({TakeOrderInput(alice, i, v, ValueLimit * Ether) : i \in 1..MaxOrders, v \in {1, MintAmount}}))
    \/ cancelOrder({alice}, CancelItems)
SpecNative == Init /\ [][NextNative]_vars

\* ------------------------------------------- packing and unpacking events
\* field values up to one past the widths, so that some do not fit
EventFields ==
    [step : {"fields"}, makerValue : 0..ValueLimit, takerValue : 0..ValueLimit,
     orderPairAlias : 0..Pow2(AliasBits), packedData : {0},
     unpacked : {[makerValue |-> 0, takerValue |-> 0, orderPairAlias |-> 0]}]

InitPack == Deployed(MaxOrders) /\ orderEvent \in EventFields
NextPack == pack \/ unpack
SpecPack == InitPack /\ [][NextPack]_vars

\* ================================================================= claims
\* The claims are checked in every reachable state against every call of a
\* domain of calls: the outcome of a call is what the entry point computes from
\* the current state.
AnyTake ==
    {TakeOrderInput(a, i, v, r) : a \in Accounts, i \in 0..(MaxOrders + 1),
                                  v \in {0, 1, 2, 3, ValueLimit - 1},
                                  r \in {Ether, ValueLimit * Ether}}

AnyCancel == {CancelOrderInput(a, i) : a \in Accounts, i \in 0..(MaxOrders + 1)}

AnyMake == CreateInputs \cup UpdateInputs

Min(a, b) == IF a < b THEN a ELSE b

\* balances b after `value` of `token` went from one holder to another
moved(b, token, from, to, value) ==
    [b EXCEPT ![from][token] = @ - value, ![to][token] = @ + value]

\* (maker, id) was created at some time
wasCreated(maker, id) == id \in 1..orderCount[maker]

\* C1: a successful fill of a visible fungible/fungible order (m, t) that asks
\* for r > 0 fills f = min(r, t) and g = floor(m * f / t): the order is left as
\* (m - g, t - f), it is destroyed, all fields zero, exactly when f = t, the
\* maker is credited f of the taker asset and the taker g of the maker asset.
C1_FillArithmetic ==
    \A taker \in Accounts, input \in AnyTake :
        LET o == getOrder(State, input.maker, input.id)
            r == callTakeOrder(State, killSwitchIsOn, taker, input)
            after == getOrder(r.s, input.maker, input.id)
            m == o.makerValue
            t == o.takerValue
            f == Min(input.takerValue, t)
            g == (m * f) \div t
        IN  (/\ r.err = ERR_NONE
             /\ o.id # 0 /\ ~o.isHidden
             /\ isFungiblePair(o.pair)
             /\ input.takerValue > 0)
            => /\ (f = t) <=> (after.id = 0)
               /\ f = t => isDeletedOrder(after) /\ after = nullOrder
               /\ f # t => after = [o EXCEPT !.makerValue = m - g, !.takerValue = t - f]
               /\ r.s.balances = moved(moved(balances, o.pair.takerContractAddress,
                                             taker, input.maker, f),
                                       o.pair.makerContractAddress, DUBIEX, taker, g)

\* bob has filled one unit of alice's (3, 2), which rounds 3 * 1 / 2 down to 1
\* and leaves (2, 1), and a fill of the rest succeeds
C1_Witness ==
    /\ balances[bob][Dubi] = 1
    /\ balances[alice][Purpose] = 1
    /\ \E input \in AnyTake :
          /\ getOrder(State, input.maker, input.id).makerValue = 2
          /\ getOrder(State, input.maker, input.id).takerValue = 1
          /\ input.takerValue = 1
          /\ callTakeOrder(State, killSwitchIsOn, bob, input).err = ERR_NONE

\* a fill request relayed for its taker, signed by the taker with the next nonce
signedTake(taker, input) == Boosted(input, taker, taker, nonces[taker] + 1)

\* C2 as stated, in every state: a fill, direct or relayed, naming id 0, an id
\* never created, a destroyed order or a hidden order fails with the not-found
\* error and changes nothing.
C2_Original ==
    \A taker \in Accounts, input \in AnyTake :
        LET o == getOrder(State, input.maker, input.id)
            r == callTakeOrder(State, killSwitchIsOn, taker, input)
            b == callBoostedTakeOrder(State, killSwitchIsOn, signedTake(taker, input))
        IN  (o.id = 0 \/ o.isHidden)
            => /\ r.err = ERR_NOT_FOUND /\ r.s = State
               /\ b.err = ERR_NOT_FOUND /\ b.s = State

\* C2 (amended): while the kill switch is off, a fill, direct or relayed, naming
\* id 0, an id never created, a destroyed order or a hidden order fails with the
\* one not-found error and changes no order, balance, nonce or alias; once the
\* kill switch is on the fill still changes nothing but fails with the
\* kill-switch error.
C2_UnknownOrderFill ==
    \A taker \in Accounts, input \in AnyTake :
        LET o == getOrder(State, input.maker, input.id)
            r == callTakeOrder(State, killSwitchIsOn, taker, input)
            b == callBoostedTakeOrder(State, killSwitchIsOn, signedTake(taker, input))
            e == IF killSwitchIsOn THEN ERR_TAKE_KILL_SWITCH ELSE ERR_NOT_FOUND
        IN  (o.id = 0 \/ o.isHidden)
            => /\ r.err = e /\ r.s = State
               /\ b.err = e /\ b.s = State

\* the kill switch is off, alice's order 1 is destroyed, order 2 is hidden and
\* the id after the last was never created: a fill of each, and of id 0, is
\* turned down
C2_Witness ==
    /\ ~killSwitchIsOn
    /\ wasCreated(alice, 1) /\ getOrder(State, alice, 1).id = 0
    /\ getOrder(State, alice, 2).isHidden
    /\ \A i \in {0, 1, 2, MaxOrders + 1} :
          callTakeOrder(State, killSwitchIsOn, bob,
                        TakeOrderInput(alice, i, 1, ValueLimit * Ether)).err = ERR_NOT_FOUND

\* the direct calls of one request each
SingleCalls ==
    {[op |-> "makeOrder", sender |-> a, arg |-> i] : a \in Accounts, i \in AnyMake}
    \cup {[op |-> "takeOrder", sender |-> a, arg |-> i] : a \in Accounts, i \in AnyTake}
    \cup {[op |-> "cancelOrder", sender |-> a, arg |-> i] : a \in Accounts, i \in AnyCancel}

\* the direct calls of a list of requests
BatchCalls ==
    {[op |-> "makeOrders", sender |-> a, arg |-> l] : a \in Accounts, l \in Lists(MakeItems)}
    \cup {[op |-> "takeOrders", sender |-> a, arg |-> l] : a \in Accounts, l \in Lists(TakeItems)}
    \cup {[op |-> "cancelOrders", sender |-> a, arg |-> l] : a \in Accounts, l \in Lists(CancelItems)}

\* what a call returns in the current state
Outcome(c) ==
    CASE c.op = "makeOrder" -> callMakeOrder(State, killSwitchIsOn, c.sender, c.arg)
      [] c.op = "takeOrder" -> callTakeOrder(State, killSwitchIsOn, c.sender, c.arg)
      [] c.op = "cancelOrder" -> callCancelOrder(State, killSwitchIsOn, c.sender, c.arg)
      [] c.op = "makeOrders" -> callMakeOrders(State, killSwitchIsOn, c.sender, c.arg)
      [] c.op = "takeOrders" -> callTakeOrders(State, killSwitchIsOn, c.sender, c.arg)
      [] c.op = "cancelOrders" -> callCancelOrders(State, killSwitchIsOn, c.sender, c.arg)

\* C3: an order B created behind an ancestor A is hidden; whatever single call
\* comes next, B (if it still exists) is visible after it exactly when the call
\* is a successful fill of an existing A that asks for at least all A still
\* takes: partial fills, updates and the cancellation of A leave B hidden. A
\* batch reveals B only by a fill that destroys A. A visible order is never
\* hidden again.
C3_Visibility ==
    /\ \A c \in SingleCalls :
          LET r == Outcome(c) IN
          \A maker \in Accounts, id \in 1..MaxOrders :
              LET B == getOrder(State, maker, id)
                  A == getOrder(State, maker, B.ancestorOrderId)
                  B2 == getOrder(r.s, maker, id)
                  fillsA == /\ c.op = "takeOrder"
                            /\ c.arg.maker = maker /\ c.arg.id = A.id /\ A.id # 0
                            /\ r.err = ERR_NONE
                            /\ c.arg.takerValue >= A.takerValue
              IN  (B.id # 0 /\ B2.id # 0)
                  => /\ ~B.isHidden => ~B2.isHidden
                     /\ B.isHidden => (~B2.isHidden <=> fillsA)
    /\ \A c \in BatchCalls :
          LET r == Outcome(c) IN
          \A maker \in Accounts, id \in 1..MaxOrders :
              LET B == getOrder(State, maker, id)
                  A == getOrder(State, maker, B.ancestorOrderId)
                  B2 == getOrder(r.s, maker, id)
                  A2 == getOrder(r.s, maker, B.ancestorOrderId)
              IN  (B.id # 0 /\ B2.id # 0)
                  => /\ ~B.isHidden => ~B2.isHidden
                     /\ B.isHidden
                        => (~B2.isHidden <=> (c.op = "takeOrders" /\ A.id # 0 /\ A2.id = 0))

\* alice's order 2 was created behind order 1 and is visible: order 1 has been
\* filled completely, and bob holds what it sold
C3_Witness ==
    /\ getOrder(State, alice, 2).ancestorOrderId = 1
    /\ getOrder(State, alice, 2).id = 2
    /\ ~getOrder(State, alice, 2).isHidden
    /\ getOrder(State, alice, 1).id = 0
    /\ balances[bob][Dubi] > 0

\* C4: a successful create of B naming ancestor A stores B hidden, with
\* B.ancestorOrderId = A.id and B.successorOrderId = 0, sets
\* A.successorOrderId = B.id and leaves every other field of A unchanged.
C4_CreateWithAncestor ==
    \A maker \in Accounts, input \in CreateInputs :
        LET r == callMakeOrder(State, killSwitchIsOn, maker, input)
            A == getOrder(State, maker, input.ancestorOrderId)
            A2 == getOrder(r.s, maker, input.ancestorOrderId)
            B == getOrder(r.s, maker, orderCount[maker] + 1)
        IN  (r.err = ERR_NONE /\ input.ancestorOrderId # 0 /\ orderCount[maker] < MaxOrders)
            => /\ B.id = orderCount[maker] + 1
               /\ B.isHidden
               /\ A.id = input.ancestorOrderId
               /\ B.ancestorOrderId = A.id
               /\ B.successorOrderId = 0
               /\ A2 = [A EXCEPT !.successorOrderId = B.id]

\* alice's order 2 stands hidden behind her order 1, which names it as successor
C4_Witness ==
    /\ getOrder(State, alice, 1).id = 1
    /\ getOrder(State, alice, 1).successorOrderId = 2
    /\ getOrder(State, alice, 2).id = 2
    /\ getOrder(State, alice, 2).ancestorOrderId = 1
    /\ getOrder(State, alice, 2).isHidden

\* C5: a direct cancel of an existing order succeeds exactly when the caller is
\* the order's maker or the kill switch is on; while the kill switch is off a
\* cancel by anyone else fails as unauthorized and changes nothing.
C5_CancelAuthorization ==
    \A sender \in Accounts, input \in AnyCancel :
        LET o == getOrder(State, input.maker, input.id)
            r == callCancelOrder(State, killSwitchIsOn, sender, input)
        IN  o.id # 0
            => /\ (r.err = ERR_NONE) <=> (sender = input.maker \/ killSwitchIsOn)
               /\ (sender # input.maker /\ ~killSwitchIsOn)
                  => (r.err = ERR_NOT_MAKER /\ r.s = State)

\* the kill switch is off and alice has an order: bob's cancel of it is turned
\* down as unauthorized, her own goes through
C5_Witness ==
    /\ ~killSwitchIsOn
    /\ \E i \in 1..MaxOrders :
          /\ getOrder(State, alice, i).id # 0
          /\ callCancelOrder(State, killSwitchIsOn, bob, CancelOrderInput(alice, i)).err
                = ERR_NOT_MAKER
          /\ callCancelOrder(State, killSwitchIsOn, alice, CancelOrderInput(alice, i)).err
                = ERR_NONE

\* C6: every successful cancel, by the maker or by a third party while the kill
\* switch is on, hands all the order still holds of the maker asset from the
\* exchange to the maker, nothing to the caller, and destroys the order: id,
\* makerValue, takerValue, ancestorOrderId and successorOrderId read zero.
C6_CancelRefund ==
    \A sender \in Accounts, input \in AnyCancel :
        LET o == getOrder(State, input.maker, input.id)
            r == callCancelOrder(State, killSwitchIsOn, sender, input)
            after == getOrder(r.s, input.maker, input.id)
        IN  r.err = ERR_NONE
            => /\ o.id # 0
               /\ isDeletedOrder(after)
               /\ after.id = 0 /\ after.makerValue = 0 /\ after.takerValue = 0
               /\ after.ancestorOrderId = 0 /\ after.successorOrderId = 0
               /\ IF o.pair.makerCurrencyType = ERC721
                  THEN /\ heroOwner[o.makerValue] = DUBIEX
                       /\ r.s.heroOwner = [heroOwner EXCEPT ![o.makerValue] = input.maker]
                       /\ r.s.balances = balances
                  ELSE /\ r.s.balances = moved(balances, o.pair.makerContractAddress,
                                               DUBIEX, input.maker, o.makerValue)
                       /\ r.s.heroOwner = heroOwner

\* the kill switch is on and alice has an order that still holds something:
\* bob's cancel of it goes through
C6_Witness ==
    /\ killSwitchIsOn
    /\ \E i \in 1..MaxOrders :
          /\ getOrder(State, alice, i).makerValue > 0
          /\ callCancelOrder(State, killSwitchIsOn, bob, CancelOrderInput(alice, i)).err
                = ERR_NONE

\* the orders that were created and are absent now
destroyed ==
    {p \in Accounts \X (1..MaxOrders) : wasCreated(p[1], p[2]) /\ getOrder(State, p[1], p[2]).id = 0}

\* no call brings a destroyed order back
noneRevived ==
    destroyed # {}
    => \A c \in SingleCalls \cup BatchCalls :
          LET r == Outcome(c) IN \A p \in destroyed : getOrder(r.s, p[1], p[2]).id = 0

\* C7 as stated, in every state: a destroyed order stays absent, and every
\* later cancel, fill or update of it fails with not-found and changes nothing.
C7_Original ==
    /\ noneRevived
    /\ \A maker \in Accounts, id \in 1..MaxOrders :
        <<maker, id>> \in destroyed
        => /\ \A sender \in Accounts :
                 /\ callCancelOrder(State, killSwitchIsOn, sender, CancelOrderInput(maker, id))
                       = Revert(ERR_NOT_FOUND, State)
                 /\ \A v \in 1..(ValueLimit - 1) :
                       callTakeOrder(State, killSwitchIsOn, sender,
                                     TakeOrderInput(maker, id, v, ValueLimit * Ether))
                         = Revert(ERR_NOT_FOUND, State)
           /\ \A input \in UpdateInputs :
                 input.orderId = id
                 => callMakeOrder(State, killSwitchIsOn, maker, input) = Revert(ERR_NOT_FOUND, State)

\* C7 (amended): an order destroyed by cancel or by full fill is absent after
\* every later call; a later cancel of it fails with not-found and pays out
\* nothing, and a later fill or update of it changes nothing and fails with
\* not-found while the kill switch is off, with the kill-switch error once it
\* is on.
C7_DestroyedStaysAbsent ==
    /\ noneRevived
    /\ \A maker \in Accounts, id \in 1..MaxOrders :
        <<maker, id>> \in destroyed
        => /\ \A sender \in Accounts :
                 /\ callCancelOrder(State, killSwitchIsOn, sender, CancelOrderInput(maker, id))
                       = Revert(ERR_NOT_FOUND, State)
                 /\ \A v \in 1..(ValueLimit - 1) :
                       callTakeOrder(State, killSwitchIsOn, sender,
                                     TakeOrderInput(maker, id, v, ValueLimit * Ether))
                         = Revert(IF killSwitchIsOn THEN ERR_TAKE_KILL_SWITCH ELSE ERR_NOT_FOUND,
                                  State)
           /\ \A input \in UpdateInputs :
                 input.orderId = id
                 => callMakeOrder(State, killSwitchIsOn, maker, input)
                      = Revert(IF killSwitchIsOn THEN ERR_MAKE_KILL_SWITCH ELSE ERR_NOT_FOUND,
                               State)

\* the kill switch is off, alice's order 1 was filled completely (bob holds
\* what it sold) and her order 2 was cancelled (she holds the rest again): both
\* are absent
C7_Witness ==
    /\ ~killSwitchIsOn
    /\ orderCount[alice] = 2
    /\ getOrder(State, alice, 1).id = 0
    /\ getOrder(State, alice, 2).id = 0
    /\ balances[bob][Dubi] > 0
    /\ balances[DUBIEX][Dubi] = 0
    /\ balances[alice][Dubi] > 0

\* a make request relayed for its maker, signed by the maker with the next nonce
signedMake(maker, input) == Boosted(input, maker, maker, nonces[maker] + 1)

\* C8: while the kill switch is on, every create, update and fill entry point
\* fails and returns the state unchanged: makeOrder, makeOrders, takeOrder,
\* takeOrders and their relayed single and batch forms; a fill batch fails as a
\* whole, it does not skip its items.
C8_KillSwitchBlocksTrades ==
    killSwitchIsOn
    => /\ \A sender \in Accounts :
             /\ \A input \in AnyMake \cup MakeItems :
                   LET r == callMakeOrder(State, killSwitchIsOn, sender, input)
                       b == callBoostedMakeOrder(State, killSwitchIsOn, signedMake(sender, input))
                   IN  r.err # ERR_NONE /\ r.s = State /\ b.err # ERR_NONE /\ b.s = State
             /\ \A inputs \in Lists(MakeItems) :
                   LET r == callMakeOrders(State, killSwitchIsOn, sender, inputs)
                   IN  r.err # ERR_NONE /\ r.s = State
             /\ \A input \in AnyTake \cup TakeItems :
                   LET r == callTakeOrder(State, killSwitchIsOn, sender, input)
                       b == callBoostedTakeOrder(State, killSwitchIsOn, signedTake(sender, input))
                   IN  r.err # ERR_NONE /\ r.s = State /\ b.err # ERR_NONE /\ b.s = State
             /\ \A inputs \in Lists(TakeItems) :
                   LET r == callTakeOrders(State, killSwitchIsOn, sender, inputs)
                   IN  r.err = ERR_TAKE_KILL_SWITCH /\ r.s = State
       /\ \A message \in RelayMakes :
             LET r == callBoostedMakeOrder(State, killSwitchIsOn, message)
             IN  r.err # ERR_NONE /\ r.s = State
       /\ \A message \in RelayTakes :
             LET r == callBoostedTakeOrder(State, killSwitchIsOn, message)
             IN  r.err # ERR_NONE /\ r.s = State
       /\ \A messages \in Lists(RelayMakes) :
             LET r == callBoostedMakeOrderBatch(State, killSwitchIsOn, messages)
             IN  r.err # ERR_NONE /\ r.s = State
       /\ \A messages \in Lists(RelayTakes) :
             LET r == callBoostedTakeOrderBatch(State, killSwitchIsOn, messages)
             IN  r.err # ERR_NONE /\ r.s = State

\* the kill switch is on, relayed calls have been made before, and there is a
\* fill and a create that only the kill switch stops: each would succeed in
\* this state were the kill switch off
C8_Witness ==
    /\ killSwitchIsOn
    /\ nonces[bob] > 0
    /\ \E input \in TakeItems :
          /\ callTakeOrder(State, FALSE, bob, input).err = ERR_NONE
          /\ callTakeOrders(State, FALSE, bob, <<input>>).err = ERR_NONE
          /\ callTakeOrder(State, killSwitchIsOn, bob, input).err = ERR_TAKE_KILL_SWITCH
    /\ \E input \in MakeItems :
          /\ callMakeOrder(State, FALSE, alice, input).err = ERR_NONE
          /\ callMakeOrder(State, killSwitchIsOn, alice, input).err = ERR_MAKE_KILL_SWITCH

\* every pair of supplies around the threshold
AnySupply == [FungibleTokens -> {0} \cup SupplyAmounts]

\* C9: the kill switch starts off; once it is on it is on after every step,
\* also when the supplies fall below the threshold; while it is on every
\* activateKillSwitch call, whatever the supplies, fails with 'already on'.
C9_KillSwitchOneWay ==
    /\ ~killSwitchIsOn
    /\ [][killSwitchIsOn => killSwitchIsOn']_vars
    /\ [](killSwitchIsOn
            => \A supply \in AnySupply :
                  callActivateKillSwitch(killSwitchIsOn, supply)
                    = [err |-> ERR_KILL_SWITCH_ON, on |-> TRUE])

\* the kill switch is on although both supplies have fallen below the threshold
\* again
C9_Witness ==
    /\ killSwitchIsOn
    /\ totalSupply[Purpose] > 0 /\ totalSupply[Purpose] < oneBillion
    /\ totalSupply[Dubi] > 0 /\ totalSupply[Dubi] < oneBillion

\* C10: while the kill switch is off, activateKillSwitch succeeds, and turns it
\* on, exactly when the PRPS supply or the DUBI supply is at or above the
\* threshold; with both below it the call fails and the kill switch stays off.
C10_ActivateThreshold ==
    ~killSwitchIsOn
    => LET r == callActivateKillSwitch(killSwitchIsOn, totalSupply)
           atThreshold == totalSupply[Purpose] >= oneBillion \/ totalSupply[Dubi] >= oneBillion
       IN  /\ (r.err = ERR_NONE) <=> atThreshold
           /\ atThreshold => r.on
           /\ ~atThreshold => (r.err = ERR_KILL_SWITCH_SUPPLY /\ ~r.on)

\* the kill switch is off, the DUBI supply is exactly at the threshold and the
\* PRPS supply just below it
C10_Witness ==
    /\ ~killSwitchIsOn
    /\ totalSupply[Dubi] = oneBillion
    /\ totalSupply[Purpose] = oneBillion - 1

\* relayed cancels of every order, claimed to be from and signed by anyone, the
\* relayer included, with every nonce
AnyRelayCancel ==
    {Boosted(CancelOrderInput(a, i), claimed, by, n) :
        a \in Accounts, i \in 1..MaxOrders, claimed \in Accounts,
        by \in Accounts \cup {booster}, n \in 1..(MaxNonce + 1)}

\* the signature of a relayed cancel is not the maker's
isForgedCancel(message) == message.signedBy # message.input.maker

\* C11: a relayed cancel whose signature is not that of the maker of the order
\* it names fails and changes nothing, alone or anywhere in a batch, whether the
\* kill switch is off or on; with the nonce the maker would use next, the
\* failure is the signature error.
C11_ForgedRelayedCancel ==
    \A message \in AnyRelayCancel :
        LET o == getOrder(State, message.input.maker, message.input.id)
            r == callBoostedCancelOrder(State, killSwitchIsOn, message)
            alone == callBoostedCancelOrderBatch(State, killSwitchIsOn, <<message>>)
        IN  isForgedCancel(message)
            => /\ r.err # ERR_NONE /\ r.s = State
               /\ alone.err # ERR_NONE /\ alone.s = State
               /\ (o.id # 0 /\ message.nonce = nonces[message.input.maker] + 1)
                  => (r.err = ERR_BAD_SIGNATURE /\ alone.err = ERR_BAD_SIGNATURE)
               /\ \A other \in RelayCancels :
                     LET first == callBoostedCancelOrderBatch(State, killSwitchIsOn,
                                                              <<message, other>>)
                         second == callBoostedCancelOrderBatch(State, killSwitchIsOn,
                                                               <<other, message>>)
                     IN  /\ first.err # ERR_NONE /\ first.s = State
                         /\ second.err # ERR_NONE /\ second.s = State

\* the kill switch is on and alice has an order: bob may cancel it directly, but
\* a relayed cancel of it that bob signed, with alice's next nonce, is turned
\* down for its signature, alone and as a batch
C11_Witness ==
    /\ killSwitchIsOn
    /\ \E i \in 1..MaxOrders :
          LET forged == Boosted(CancelOrderInput(alice, i), bob, bob, nonces[alice] + 1)
          IN  /\ getOrder(State, alice, i).id # 0
              /\ callCancelOrder(State, killSwitchIsOn, bob, CancelOrderInput(alice, i)).err
                    = ERR_NONE
              /\ callBoostedCancelOrder(State, killSwitchIsOn, forged).err = ERR_BAD_SIGNATURE
              /\ callBoostedCancelOrderBatch(State, killSwitchIsOn, <<forged>>).err
                    = ERR_BAD_SIGNATURE

\* lists of creates and updates, good and bad
AnyMakeList == Lists(MakeItems \cup {MakeOrderInput(1, 1, nullPair, 1, 0, 0)})

\* item i of a list fails where it stands: as a call of its own in the state the
\* items before it leave, it fails, and not merely because it is an update of
\* an order that is gone (a list passes over such an update)
failsInList(sender, inputs, i) ==
    LET before == callMakeOrders(State, killSwitchIsOn, sender, SubSeq(inputs, 1, i - 1))
        start == IF i = 1 THEN State ELSE before.s
        alone == callMakeOrder(start, killSwitchIsOn, sender, inputs[i])
    IN  /\ i = 1 \/ before.err = ERR_NONE
        /\ alone.err # ERR_NONE
        /\ ~(inputs[i].orderId # 0 /\ getOrder(start, sender, inputs[i].orderId).id = 0)

SkipTakes ==
    {TakeOrderInput(alice, i, v, ValueLimit * Ether) : i \in 0..(MaxOrders + 1), v \in {0, 1, 2}}

SkipCancels == {CancelOrderInput(alice, i) : i \in 0..(MaxOrders + 1)}

\* the fill names an order that is absent, destroyed or hidden, or asks for nothing
skipsTake(s, input) ==
    ~isFillable(getOrder(s, input.maker, input.id)) \/ input.takerValue = 0

\* the cancel names an order that is absent or destroyed
skipsCancel(s, input) == getOrder(s, input.maker, input.id).id = 0

sameState(s, t) == s = t
sameButNonces(s, t) == [s EXCEPT !.nonces = t.nonces] = t

\* the messages of one signer for a list of inputs, each carrying the nonce
\* that follows the signer's nonce when the batch reaches it
RECURSIVE signedList(_, _, _, _)
signedList(batch(_, _), s, signer, inputs) ==
    IF inputs = <<>> THEN <<>>
    ELSE LET message == Boosted(Head(inputs), signer, signer, s.nonces[signer] + 1)
         IN  <<message>> \o signedList(batch, batch(s, <<message>>).s, signer, Tail(inputs))

\* a batch with a skipped item a next to an item b: a alone changes nothing, and
\* with a before or after it b is applied as the single call applies it
isolatedPair(one(_, _), many(_), skips(_, _), same(_, _), a, b) ==
    LET alone == one(State, b)
        onlyA == many(<<a>>)
        ab == many(<<a, b>>)
        ba == many(<<b, a>>)
    IN  skips(State, a) =>
           /\ onlyA.err = ERR_NONE /\ same(onlyA.s, State)
           /\ alone.err = ERR_NONE => ab.err = ERR_NONE /\ same(ab.s, alone.s)
           /\ alone.err = ERR_NONE /\ skips(alone.s, a) => ba.err = ERR_NONE /\ same(ba.s, alone.s)

directTake(s, input) == callTakeOrder(s, killSwitchIsOn, bob, input)
directTakes(inputs) == callTakeOrders(State, killSwitchIsOn, bob, inputs)
directCancel(s, input) == callCancelOrder(s, killSwitchIsOn, alice, input)
directCancels(inputs) == callCancelOrders(State, killSwitchIsOn, alice, inputs)
relayedTake(s, input) == callBoostedTakeOrder(s, killSwitchIsOn, signedTake(bob, input))
takeBatch(s, messages) == callBoostedTakeOrderBatch(s, killSwitchIsOn, messages)
cancelBatch(s, messages) == callBoostedCancelOrderBatch(s, killSwitchIsOn, messages)
relayedTakes(inputs) == takeBatch(State, signedList(takeBatch, State, bob, inputs))
relayedCancel(s, input) ==
    callBoostedCancelOrder(s, killSwitchIsOn, Boosted(input, alice, alice, s.nonces[alice] + 1))
relayedCancels(inputs) == cancelBatch(State, signedList(cancelBatch, State, alice, inputs))

AnyRelayMake ==
    {Boosted(i, signer, signer, n) :
        i \in {MakeOrderInput(2, 2, DubiPurpose, 0, 0, 0), MakeOrderInput(1, 1, nullPair, 1, 0, Ether),
               MakeOrderInput(1, 2, HeroesPurpose, 0, 0, 0), MakeOrderInput(1, 2, DubiHeroes, 0, 0, 0)},
        signer \in Accounts, n \in 0..(MaxNonce + 1)}

AnyRelayTake ==
    {Boosted(TakeOrderInput(alice, i, v, ValueLimit * Ether), signer, signer, n) :
        i \in 1..MaxOrders, v \in {1, 2}, signer \in Accounts, n \in 0..(MaxNonce + 1)}

\* the asset a relayed create deposits, and the asset a relayed fill pays with
makeLeg(s, message) == message.input.pair.makerCurrencyType
takeLeg(s, message) == getOrder(s, message.input.maker, message.input.id).pair.takerCurrencyType

\* 1 when the message is signed by the account and debits a fungible asset
countsFor(account, message, leg) ==
    IF message.signer = account /\ leg # ERC721 THEN 1 ELSE 0

\* an accepted relayed call raises each account's nonce by the number of its
\* messages that debit a fungible asset: one call by 0 or 1, a batch of two by
\* up to 2
raisesNonces(one(_, _), many(_, _), leg(_, _), m1, m2) ==
    LET single == one(State, m1)
        first == many(State, <<m1>>)
        both == many(State, <<m1, m2>>)
    IN  /\ single.err = ERR_NONE =>
              single.s.nonces = [a \in Accounts |-> nonces[a] + countsFor(a, m1, leg(State, m1))]
        /\ both.err = ERR_NONE =>
              both.s.nonces = [a \in Accounts |-> nonces[a] + countsFor(a, m1, leg(State, m1))
                                                  + countsFor(a, m2, leg(first.s, m2))]

makeOne(s, message) == callBoostedMakeOrder(s, killSwitchIsOn, message)
makeBatch(s, messages) == callBoostedMakeOrderBatch(s, killSwitchIsOn, messages)
takeOne(s, message) == callBoostedTakeOrder(s, killSwitchIsOn, message)

\* C14: an accepted relayed create or fill whose debited leg is fungible raises
\* the signer's nonce by exactly 1 and leaves every other nonce as it was; an
\* accepted batch raises a signer's nonce by exactly the number of its messages
\* in the batch whose debited leg is fungible, so k such messages raise it by k
C14_NonceIncrement ==
    /\ \A m1 \in AnyRelayMake, m2 \in AnyRelayMake :
          raisesNonces(makeOne, makeBatch, makeLeg, m1, m2)
    /\ \A m1 \in AnyRelayTake, m2 \in AnyRelayTake :
          raisesNonces(takeOne, takeBatch, takeLeg, m1, m2)

\* relayed creates and fills have been accepted before, and now a batch of two
\* creates that deposit DUBI signed by alice and a batch of two fills paid in
\* PRPS signed by bob would both be accepted and applied
C14_Witness ==
    /\ nonces[alice] > 0
    /\ nonces[bob] > 0
    /\ \E m1 \in AnyRelayMake, m2 \in AnyRelayMake :
          /\ m1.signer = alice /\ m2.signer = alice
          /\ m1.input.pair = DubiPurpose /\ m2.input.pair = DubiHeroes
          /\ makeBatch(State, <<m1, m2>>).err = ERR_NONE
          /\ makeBatch(State, <<m1, m2>>).s.nonces[alice] = nonces[alice] + 2
    /\ \E m1 \in AnyRelayTake, m2 \in AnyRelayTake :
          /\ m1.signer = bob /\ m2.signer = bob
          /\ takeBatch(State, <<m1, m2>>).err = ERR_NONE
          /\ takeBatch(State, <<m1, m2>>).s.nonces[bob] = nonces[bob] + 2
          /\ takeBatch(State, <<m1, m2>>).s.balances[bob][Purpose] = balances[bob][Purpose] - 2

\* ------------------------------------------------------------------ C15
\* relayed creates that deposit a hero, signed by its owner or not, with every
\* embedded nonce
HeroRelayMake ==
    {Boosted(MakeOrderInput(t, 2, HeroesPurpose, 0, 0, 0), signer, signer, n) :
        t \in TokenIds, signer \in Accounts, n \in 0..(MaxNonce + 1)}

\* whatever nonce the message embeds, the call has the same outcome and leaves
\* every nonce as it was; a batch of one leaves the state the single call leaves
keepsNonces(one(_, _), many(_, _), message) ==
    LET r == one(State, message)
    IN  /\ r.s.nonces = nonces
        /\ many(State, <<message>>).s = r.s
        /\ \A n \in 0..(MaxNonce + 1) : one(State, [message EXCEPT !.nonce = n]) = r

BadMakes ==
    {Boosted(i, signer, by, n) :
        i \in {MakeOrderInput(2, 2, DubiPurpose, 0, 0, 0), MakeOrderInput(1, 1, nullPair, 1, 0, Ether),
               MakeOrderInput(1, 2, HeroesPurpose, 0, 0, 0)},
        signer \in Accounts, by \in Accounts, n \in 0..(MaxNonce + 1)}

BadTakes ==
    {Boosted(TakeOrderInput(alice, i, 2, ValueLimit * Ether), signer, by, n) :
        i \in 1..MaxOrders, signer \in Accounts, by \in Accounts, n \in 0..(MaxNonce + 1)}

BadCancels ==
    {Boosted(CancelOrderInput(maker, i), maker, by, n) :
        maker \in Accounts, i \in 1..MaxOrders, by \in Accounts, n \in 0..(MaxNonce + 1)}

cancelOne(s, message) == callBoostedCancelOrder(s, killSwitchIsOn, message)

isForged(message) == message.signedBy # message.signer
isStale(s, message) == message.nonce # s.nonces[message.signer] + 1

\* a call is rejected when it fails and returns the state it was given
isRejected(r) == r.err # ERR_NONE /\ r.s = State

\* every message that is bad where the call reaches it is rejected: alone,
\* first in a batch, and second in a batch
rejectsBad(one(_, _), many(_, _), bad(_, _), messages, others) ==
    \A message \in messages :
        /\ bad(State, message) => isRejected(one(State, message))
        /\ \A other \in others :
              /\ bad(State, message) => isRejected(many(State, <<message, other>>))
              /\ bad(many(State, <<other>>).s, message) =>
                    isRejected(many(State, <<other, message>>))

isBad(s, message) == isForged(message) \/ isStale(s, message)
badMake(s, message) ==
    isForged(message) \/ (makeLeg(s, message) # ERC721 /\ isStale(s, message))
badTake(s, message) ==
    isForged(message) \/ (takeLeg(s, message) # ERC721 /\ isStale(s, message))

isUsed(s, message) == message.nonce <= s.nonces[message.signer]

\* this step is the call r, accepted
isStepOf(r) == r.err = ERR_NONE /\ State' = r.s

\* a step that accepts the message, alone or in a batch before or after
\* another one, uses up the nonce the message embeds when it debits a fungible
\* asset where the call reaches it
usesUp(one(_, _), many(_, _), leg(_, _), messages) ==
    \A message \in messages :
        /\ isStepOf(one(State, message)) /\ leg(State, message) # ERC721
              => isUsed(State', message)
        /\ \A other \in messages :
              /\ isStepOf(many(State, <<message, other>>)) /\ leg(State, message) # ERC721
                    => isUsed(State', message)
              /\ isStepOf(many(State, <<other, message>>))
                    /\ leg(many(State, <<other>>).s, message) # ERC721
                    => isUsed(State', message)

\* a message whose nonce is used up is rejected, alone and as a batch, unless
\* it debits an ERC721
rejectsUsed(one(_, _), many(_, _), leg(_, _), messages) ==
    \A message \in messages :
        isUsed(State, message) /\ leg(State, message) # ERC721 =>
            /\ isRejected(one(State, message))
            /\ isRejected(many(State, <<message>>))

cancelLeg(s, message) == NULL

AnyUpdate ==
    {MakeOrderInput(m, t, pair, i, 0, q) :
        m \in {1, 3}, t \in {1, 3}, pair \in {nullPair, DubiPurpose, HeroesPurpose},
        i \in 1..MaxOrders, q \in {0, 1, Ether, Ether + 1, 2 * Ether, 3 * Ether}}

\* C18: while the kill switch is off, an update with ratio q > 0 of an existing
\* order with makerValue m whose assets are both fungible sets the order's
\* takerValue to floor(m * q / Ether) and changes nothing else when that is
\* below ValueLimit, whatever makerValue, takerValue and pair the request
\* carries; when it is ValueLimit or more the update fails with the overflow
\* error and changes nothing. The same holds for the update as a list of one.
C18_RatioUpdate ==
    \A maker \in Accounts, input \in AnyUpdate :
        LET o == getOrder(State, maker, input.orderId)
            t == (o.makerValue * input.updatedRatioWei) \div Ether
            r == callMakeOrder(State, killSwitchIsOn, maker, input)
            list == callMakeOrders(State, killSwitchIsOn, maker, <<input>>)
        IN  ~killSwitchIsOn /\ o.id # 0 /\ isFungiblePair(o.pair) /\ input.updatedRatioWei > 0 =>
               /\ list = r
               /\ IF t < ValueLimit
                  THEN /\ r.err = ERR_NONE
                       /\ r.s = [State EXCEPT !.orders[maker][input.orderId].takerValue = t]
                  ELSE /\ r.err = ERR_OVERFLOW
                       /\ r.s = State

\* alice has an order offering 3 that was repriced to ask for 1, which no
\* create and no fill here leads to; a further update of it would overflow, and
\* one at the price 3/2 whose request carries another makerValue would set its
\* takerValue to floor(3 * 3 / 2) = 4
C18_Witness ==
    /\ ~killSwitchIsOn
    /\ \E i \in 1..MaxOrders :
          LET o == getOrder(State, alice, i)
          IN  /\ o.id # 0 /\ o.pair = DubiPurpose
              /\ o.makerValue = 3 /\ o.takerValue = 1
              /\ \E input \in AnyUpdate :
                    /\ input.orderId = i
                    /\ callMakeOrder(State, killSwitchIsOn, alice, input).err = ERR_OVERFLOW
              /\ \E input \in AnyUpdate :
                    /\ input.orderId = i /\ input.makerValue # o.makerValue
                    /\ callMakeOrder(State, killSwitchIsOn, alice, input).err = ERR_NONE
                    /\ getOrder(callMakeOrder(State, killSwitchIsOn, alice, input).s, alice, i).takerValue = 4

\* ------------------------------------------------------------------ C19
\* C19: while the kill switch is off, every update of an existing order one of
\* whose assets is an ERC721 fails and changes nothing, with the ERC721 error
\* when its ratio is not zero, whether it is made directly, as a list of one or
\* relayed; an update of an existing order is accepted only when both of the
\* order's assets are fungible.
C19_NonFungibleOrderImmutable ==
    \A maker \in Accounts, input \in AnyUpdate :
        LET o == getOrder(State, maker, input.orderId)
            r == callMakeOrder(State, killSwitchIsOn, maker, input)
            list == callMakeOrders(State, killSwitchIsOn, maker, <<input>>)
            relayed == makeOne(State, signedMake(maker, input))
        IN  ~killSwitchIsOn /\ o.id # 0 =>
               /\ ~isFungiblePair(o.pair) =>
                     /\ isRejected(r) /\ isRejected(list) /\ isRejected(relayed)
                     /\ input.updatedRatioWei > 0 =>
                           /\ r.err = ERR_ERC721_UPDATE
                           /\ list.err = ERR_ERC721_UPDATE
                           /\ relayed.err = ERR_ERC721_UPDATE
               /\ r.err = ERR_NONE \/ list.err = ERR_NONE \/ relayed.err = ERR_NONE
                     => isFungiblePair(o.pair)

\* alice has an order selling her hero and an order buying bob's hero, and an
\* update of either at a price that a fungible order of the same values would
\* take is turned down with the ERC721 error
C19_Witness ==
    /\ ~killSwitchIsOn
    /\ \E i \in 1..MaxOrders, j \in 1..MaxOrders :
          /\ getOrder(State, alice, i).pair = HeroesPurpose
          /\ getOrder(State, alice, j).pair = DubiHeroes
          /\ \E input \in AnyUpdate :
                /\ input.orderId = i
                /\ updatedTakerValue(getOrder(State, alice, i), input) \in 1..(ValueLimit - 1)
                /\ callMakeOrder(State, killSwitchIsOn, alice, input).err = ERR_ERC721_UPDATE
          /\ \E input \in AnyUpdate :
                /\ input.orderId = j
                /\ updatedTakerValue(getOrder(State, alice, j), input) \in 1..(ValueLimit - 1)
                /\ makeOne(State, signedMake(alice, input)).err = ERR_ERC721_UPDATE

\* ------------------------------------------------------------------ C20
\* the values of an order one of whose assets is an ERC721 stay as they are
\* for as long as the order exists
keepsValues(o, after) ==
    o.id # 0 /\ ~isFungiblePair(o.pair) =>
        after.id = 0 \/ (after.makerValue = o.makerValue /\ after.takerValue = o.takerValue)

\* C20: while the kill switch is off, a fill of an open order one of whose
\* assets is an ERC721 that asks for another amount than the order's
\* takerValue is rejected and changes nothing, directly and relayed, with the
\* invalid-takerValue error when the amount is not zero, and a list of that
\* one fill changes nothing; and no step leaves such an order existing with
\* other values than it had.
C20_NonFungibleAllOrNothing ==
    /\ [](\A taker \in Accounts, input \in AnyTake :
             LET o == getOrder(State, input.maker, input.id)
                 r == callTakeOrder(State, killSwitchIsOn, taker, input)
                 relayed == takeOne(State, signedTake(taker, input))
             IN  /\ ~killSwitchIsOn
                 /\ isFillable(o)
                 /\ ~isFungiblePair(o.pair)
                 /\ input.takerValue # o.takerValue
                 => /\ isRejected(r)
                    /\ isRejected(relayed)
                    /\ input.takerValue # 0 =>
                          r.err = ERR_INVALID_TAKER_VALUE /\ relayed.err = ERR_INVALID_TAKER_VALUE
                    /\ callTakeOrders(State, killSwitchIsOn, taker, <<input>>).s = State)
    /\ [][\A maker \in Accounts, id \in 1..MaxOrders :
             keepsValues(orders[maker][id], orders'[maker][id])]_vars

\* alice has an open order selling her hero for 2 PRPS and an open order
\* buying bob's hero 2: bob's fill of the first with 1 PRPS, which he has, is
\* turned down for its amount, the fill with 2 would be accepted, and so would
\* the fill of the second with hero 2
C20_Witness ==
    /\ ~killSwitchIsOn
    /\ \E i \in 1..MaxOrders, j \in 1..MaxOrders :
          /\ getOrder(State, alice, i).pair = HeroesPurpose
          /\ getOrder(State, alice, j).pair = DubiHeroes
          /\ balances[bob][Purpose] >= 2
          /\ callTakeOrder(State, killSwitchIsOn, bob,
                           TakeOrderInput(alice, i, 1, ValueLimit * Ether)).err = ERR_INVALID_TAKER_VALUE
          /\ callTakeOrder(State, killSwitchIsOn, bob,
                           TakeOrderInput(alice, i, 2, ValueLimit * Ether)).err = ERR_NONE
          /\ callTakeOrder(State, killSwitchIsOn, bob,
                           TakeOrderInput(alice, j, 1, ValueLimit * Ether)).err = ERR_INVALID_TAKER_VALUE
          /\ callTakeOrder(State, killSwitchIsOn, bob,
                           TakeOrderInput(alice, j, 2, ValueLimit * Ether)).err = ERR_NONE

\* ------------------------------------------------------------------ C21
\* a number no order's price reaches
NoCeiling == ValueLimit * Ether

\* fills of alice's orders with every amount and every ceiling around the
\* prices the orders can have
CeilingTakes ==
    {TakeOrderInput(alice, i, v, c) : i \in 1..MaxOrders, v \in 0..MintAmount, c \in 0..(3 * Ether)}

\* C21: while the kill switch is off, a fill of an open order succeeds only if
\* the order's price takerValue * Ether / makerValue in the state the fill
\* meets is at most the fill's maxTakerMakerRatio; a fill that meets a price
\* above its ceiling fails with the invalid-takerValue error and changes
\* nothing, whatever updates and fills came before; and a fill that meets a
\* price at or below its ceiling has the outcome it has without a ceiling.
C21_RatioCeiling ==
    \A taker \in Accounts, input \in CeilingTakes :
        LET o == getOrder(State, input.maker, input.id)
            r == callTakeOrder(State, killSwitchIsOn, taker, input)
            free == callTakeOrder(State, killSwitchIsOn, taker,
                                  [input EXCEPT !.maxTakerMakerRatio = NoCeiling])
        IN  ~killSwitchIsOn /\ isFillable(o) /\ o.makerValue > 0 =>
               LET ratio == (o.takerValue * Ether) \div o.makerValue
               IN  /\ r.err = ERR_NONE => ratio <= input.maxTakerMakerRatio
                   /\ ratio > input.maxTakerMakerRatio /\ free.err = ERR_NONE =>
                         r.err = ERR_INVALID_TAKER_VALUE /\ r.s = State
                   /\ ratio > input.maxTakerMakerRatio => r.err # ERR_NONE /\ r.s = State
                   /\ ratio <= input.maxTakerMakerRatio => r = free

\* alice's order offers 2 and asks for 6, a price of 3 that only an update
\* leads to here: bob's fill with the ceiling 1 is turned down and changes
\* nothing, the same fill with the ceiling 3 is accepted
C21_Witness ==
    /\ ~killSwitchIsOn
    /\ \E i \in 1..MaxOrders :
          LET o == getOrder(State, alice, i)
          IN  /\ o.id # 0 /\ ~o.isHidden
              /\ o.makerValue = 2 /\ o.takerValue = 6
              /\ callTakeOrder(State, killSwitchIsOn, bob,
                               TakeOrderInput(alice, i, 3, Ether)).err = ERR_INVALID_TAKER_VALUE
              /\ callTakeOrder(State, killSwitchIsOn, bob,
                               TakeOrderInput(alice, i, 3, 3 * Ether)).err = ERR_NONE

\* ------------------------------------------------------------------ C22
\* the ids at which the maker has an order after the step and had none before
newIds(maker) ==
    {id \in 1..MaxOrders : orders[maker][id].id = 0 /\ orders'[maker][id].id # 0}

\* creates of either kind, one that fails among them
AnyCreate == MakerCreates \cup CreateInputs

\* C22: every maker's count starts at 0; in every state every order is stored
\* under its own id and no order has an id beyond its maker's count; a
\* successful create by a maker stores the new order under the maker's count
\* plus one, raises that count by one and leaves every other maker's count
\* alone; a failed create, a cancel and a fill leave every count alone; and
\* every step gives new orders exactly the ids from the old count to the new
\* one, so the k-th create of a maker gets id k and no id is assigned twice.
C22_SequentialIds ==
    /\ orderCount = [a \in Accounts |-> 0]
    /\ [](\A maker \in Accounts :
             /\ \A id \in 1..MaxOrders :
                   orders[maker][id].id \in {0, id}
                   /\ (orders[maker][id].id # 0 => id <= orderCount[maker])
             /\ \A input \in AnyCreate :
                   LET r == callMakeOrder(State, killSwitchIsOn, maker, input)
                       id == orderCount[maker] + 1
                   IN  IF r.err = ERR_NONE
                       THEN /\ r.s.orderCount = [orderCount EXCEPT ![maker] = id]
                            /\ id <= MaxOrders => getOrder(r.s, maker, id).id = id
                            /\ \A a \in Accounts, i \in 1..MaxOrders :
                                  <<a, i>> # <<maker, id>> =>
                                     getOrder(r.s, a, i).id = getOrder(State, a, i).id
                       ELSE r.s.orderCount = orderCount
             /\ \A input \in AnyTake :
                   callTakeOrder(State, killSwitchIsOn, maker, input).s.orderCount = orderCount
             /\ \A input \in AnyCancel :
                   callCancelOrder(State, killSwitchIsOn, maker, input).s.orderCount = orderCount)
    /\ [][\A maker \in Accounts :
             newIds(maker) = (orderCount[maker] + 1)..orderCount'[maker]]_vars

\* alice's first order is gone and her second is there, bob has his first:
\* alice's next create would get id 3 and bob's id 2
C22_Witness ==
    /\ orderCount[alice] = 2 /\ orderCount[bob] = 1
    /\ orders[alice][1].id = 0 /\ orders[alice][2].id = 2
    /\ orders[bob][1].id = 1
    /\ \E input \in MakerCreates :
          /\ callMakeOrder(State, killSwitchIsOn, alice, input).err = ERR_NONE
          /\ callMakeOrder(State, killSwitchIsOn, alice, input).s.orderCount[alice] = 3
    /\ \E input \in MakerCreates :
          /\ callMakeOrder(State, killSwitchIsOn, bob, input).err = ERR_NONE
          /\ getOrder(callMakeOrder(State, killSwitchIsOn, bob, input).s, bob, 2).id = 2

\* ------------------------------------------------------------------ C23
\* pair specs over the contracts and currency types in use, registered or not
AnyPair ==
    {OrderPair(mc, mt, tc, tt) :
        mc \in {Dubi, Purpose, Heroes}, mt \in {ERC20, BOOSTABLE_ERC20, ERC721},
        tc \in {Dubi, Purpose}, tt \in {ERC20, BOOSTABLE_ERC20}}

isPrefix(a, b) == Len(a) <= Len(b) /\ SubSeq(b, 1, Len(a)) = a

\* C23: aliases are handed out as 1, 2, 3, ... in the order pairs are first
\* resolved: resolving an unseen pair gives it the next alias and resolving a
\* seen pair gives its alias and registers nothing; a successful create
\* resolves its pair; no step changes or removes an alias once given; two
\* specs that differ in any field, also only in a currency type, never have
\* the same alias; a spec never registered reads as alias 0, and alias 0 and
\* every alias not yet given read as the null pair.
C23_AliasStableInjective ==
    /\ pairAliases = <<>>
    /\ [](/\ \A i \in 1..Len(pairAliases), j \in 1..Len(pairAliases) :
                i # j => pairAliases[i] # pairAliases[j]
          /\ \A i \in 1..Len(pairAliases) :
                /\ getOrderPairAlias(pairAliases, pairAliases[i]) = i
                /\ getOrderPairByAlias(pairAliases, i) = pairAliases[i]
                /\ pairAliases[i] # nullPair
          /\ getOrderPairByAlias(pairAliases, 0) = nullPair
          /\ getOrderPairByAlias(pairAliases, Len(pairAliases) + 1) = nullPair
          /\ \A p \in AnyPair, q \in AnyPair :
                LET a == getOrderPairAlias(pairAliases, p)
                    once == getOrCreateOrderPairAlias(pairAliases, p)
                IN  /\ a = 0 <=> ~\E i \in 1..Len(pairAliases) : pairAliases[i] = p
                    /\ a = 0 => getOrderPairAlias(once, p) = Len(pairAliases) + 1
                    /\ a # 0 => once = pairAliases
                    /\ getOrCreateOrderPairAlias(once, p) = once
                    /\ isPrefix(pairAliases, once)
                    /\ p # q /\ a # 0 => getOrderPairAlias(pairAliases, q) # a
          /\ \A maker \in Accounts, input \in AnyCreate :
                LET r == callMakeOrder(State, killSwitchIsOn, maker, input)
                IN  IF r.err = ERR_NONE
                    THEN r.s.pairAliases = getOrCreateOrderPairAlias(pairAliases, input.pair)
                         /\ getOrderPairAlias(r.s.pairAliases, input.pair) # 0
                    ELSE r.s.pairAliases = pairAliases)
    /\ [][isPrefix(pairAliases, pairAliases')]_vars

\* DUBI for PRPS is registered twice, once with DUBI as a boostable token and
\* once as a plain ERC20, under different aliases, and PRPS for DUBI under a
\* third; a pair never used reads as alias 0
C23_Witness ==
    /\ Len(pairAliases) = 3
    /\ getOrderPairAlias(pairAliases, DubiPurpose) # 0
    /\ getOrderPairAlias(pairAliases, DubiAsERC20Purpose) # 0
    /\ getOrderPairAlias(pairAliases, DubiPurpose) # getOrderPairAlias(pairAliases, DubiAsERC20Purpose)
    /\ getOrderPairAlias(pairAliases, PurposeDubi) = 3
    /\ getOrderPairAlias(pairAliases, HeroesPurpose) = 0

\* ------------------------------------------------------------------ C24
\* the registry after p and then q are resolved
resolvedInOrder(p, q) ==
    getOrCreateOrderPairAlias(getOrCreateOrderPairAlias(pairAliases, p), q)

\* the state after the first maker's create and then the second's, when both succeed
madeInOrder(maker1, input1, maker2, input2) ==
    LET first == callMakeOrder(State, killSwitchIsOn, maker1, input1)
        second == callMakeOrder(first.s, killSwitchIsOn, maker2, input2)
    IN  [ok |-> first.err = ERR_NONE /\ second.err = ERR_NONE, s |-> second.s]

registered(aliases) == {aliases[i] : i \in 1..Len(aliases)}

\* C24 as stated: two runs that register the same pair specs in different
\* orders end with the same alias for each spec
C24_Original ==
    \A p \in AnyPair, q \in AnyPair :
        /\ getOrderPairAlias(resolvedInOrder(p, q), p) = getOrderPairAlias(resolvedInOrder(q, p), p)
        /\ getOrderPairAlias(resolvedInOrder(p, q), q) = getOrderPairAlias(resolvedInOrder(q, p), q)

\* C24: two runs that resolve the same two pair specs in different orders end
\* with the same set of registered specs and as many aliases; a spec that was
\* registered before keeps its alias in both; a spec has the same alias in
\* both runs exactly when one of the two was registered before or the two are
\* the same spec: two unseen specs get the next two aliases in the order of
\* the run, so they swap. The same holds for two runs of two makers' creates.
C24_AliasByFirstUse ==
    /\ \A p \in AnyPair, q \in AnyPair :
          LET pq == resolvedInOrder(p, q)
              qp == resolvedInOrder(q, p)
              seen(x) == getOrderPairAlias(pairAliases, x) # 0
          IN  /\ registered(pq) = registered(qp)
              /\ Len(pq) = Len(qp)
              /\ \A x \in registered(pairAliases) :
                    /\ getOrderPairAlias(pq, x) = getOrderPairAlias(pairAliases, x)
                    /\ getOrderPairAlias(qp, x) = getOrderPairAlias(pairAliases, x)
              /\ getOrderPairAlias(pq, p) = getOrderPairAlias(qp, p)
                    <=> (seen(p) \/ seen(q) \/ p = q)
              /\ ~seen(p) /\ ~seen(q) /\ p # q =>
                    /\ getOrderPairAlias(pq, p) = Len(pairAliases) + 1
                    /\ getOrderPairAlias(qp, p) = Len(pairAliases) + 2
    /\ \A i1 \in MakerCreates, i2 \in MakerCreates :
          LET run1 == madeInOrder(alice, i1, bob, i2)
              run2 == madeInOrder(bob, i2, alice, i1)
          IN  run1.ok /\ run2.ok =>
                 /\ run1.s.pairAliases = resolvedInOrder(i1.pair, i2.pair)
                 /\ run2.s.pairAliases = resolvedInOrder(i2.pair, i1.pair)

\* one pair is registered, and alice's create of DUBI for PRPS and bob's of
\* PRPS for DUBI, both unseen, succeed in either order: alice's pair ends with
\* alias 2 when she is first and with alias 3 when bob is
C24_Witness ==
    /\ Len(pairAliases) = 1
    /\ \E i1 \in MakerCreates, i2 \in MakerCreates :
          /\ i1.pair = DubiPurpose /\ i2.pair = PurposeDubi
          /\ madeInOrder(alice, i1, bob, i2).ok
          /\ madeInOrder(bob, i2, alice, i1).ok
          /\ getOrderPairAlias(madeInOrder(alice, i1, bob, i2).s.pairAliases, DubiPurpose) = 2
          /\ getOrderPairAlias(madeInOrder(bob, i2, alice, i1).s.pairAliases, DubiPurpose) = 3

\* ------------------------------------------------------------------ C25
fits(makerValue, takerValue, orderPairAlias) ==
    makerValue < ValueLimit /\ takerValue < ValueLimit /\ orderPairAlias < Pow2(AliasBits)

\* C25: for makerValue and takerValue below 2^ValueBits and an alias below
\* 2^AliasBits, unpacking the packed word returns exactly the three fields;
\* the word is the three fields side by side, makerValue in the low ValueBits
\* bits, takerValue in the next ValueBits bits and the alias in the AliasBits
\* bits above them, and nothing above that. A field that does not fit is cut
\* to its width and leaves the other two fields as they are.
C25_PackRoundTrip ==
    /\ \A m \in 0..ValueLimit, t \in 0..ValueLimit, a \in 0..Pow2(AliasBits) :
          LET packedData == packDataFromOrderEvent(m, t, a)
              unpacked == unpackPackedDataFromOrderEvent(packedData)
          IN  /\ fits(m, t, a) =>
                    /\ unpacked = [makerValue |-> m, takerValue |-> t, orderPairAlias |-> a]
                    /\ packedData = m + t * Pow2(ValueBits) + a * Pow2(2 * ValueBits)
              /\ packedData < Pow2(2 * ValueBits + AliasBits)
              /\ packedData % Pow2(ValueBits) = m % ValueLimit
              /\ (packedData \div Pow2(ValueBits)) % Pow2(ValueBits) = t % ValueLimit
              /\ packedData \div Pow2(2 * ValueBits) = a % Pow2(AliasBits)
    /\ orderEvent.step = "unpacked"
          /\ fits(orderEvent.makerValue, orderEvent.takerValue, orderEvent.orderPairAlias) =>
              /\ orderEvent.unpacked.makerValue = orderEvent.makerValue
              /\ orderEvent.unpacked.takerValue = orderEvent.takerValue
              /\ orderEvent.unpacked.orderPairAlias = orderEvent.orderPairAlias

\* an event whose three fields have every bit set was packed and unpacked, and
\* came back as it was
C25_Witness ==
    /\ orderEvent.step = "unpacked"
    /\ orderEvent.makerValue = ValueLimit - 1
    /\ orderEvent.takerValue = ValueLimit - 1
    /\ orderEvent.orderPairAlias = Pow2(AliasBits) - 1
    /\ orderEvent.packedData = Pow2(2 * ValueBits + AliasBits) - 1
    /\ orderEvent.unpacked.takerValue = ValueLimit - 1

\* ------------------------------------------------------------------ C26
\* a create that would go through if it named no ancestor
isSoundCreate(input) ==
    /\ input.orderId = 0
    /\ input.makerValue > 0 /\ input.takerValue > 0
    /\ validatePair(input.pair) = ERR_NONE

\* C26: a create that names an ancestor which does not exist, or one whose
\* successorOrderId is already nonzero, fails and leaves the state as it was,
\* with the missing-ancestor and the has-a-successor error when nothing else is
\* wrong with it; a create that names an ancestor and succeeds found it with
\* successorOrderId 0 and sets it to the new id; no two orders of a maker name
\* the same successor, and a nonzero successorOrderId of an order never changes
\* while the order exists.
C26_OneSuccessor ==
    /\ [](\A maker \in Accounts, input \in AnyCreate :
             LET ancestor == getOrder(State, maker, input.ancestorOrderId)
                 r == callMakeOrder(State, killSwitchIsOn, maker, input)
                 named == input.ancestorOrderId # 0
             IN  /\ named /\ ancestor.id = 0 =>
                       /\ isRejected(r)
                       /\ isSoundCreate(input) /\ ~killSwitchIsOn => r.err = ERR_NO_ANCESTOR
                 /\ named /\ ancestor.id # 0 /\ ancestor.successorOrderId # 0 =>
                       /\ isRejected(r)
                       /\ isSoundCreate(input) /\ ~killSwitchIsOn => r.err = ERR_HAS_SUCCESSOR
                 /\ named /\ r.err = ERR_NONE =>
                       /\ ancestor.id # 0 /\ ancestor.successorOrderId = 0
                       /\ getOrder(r.s, maker, input.ancestorOrderId)
                             = [ancestor EXCEPT !.successorOrderId = orderCount[maker] + 1])
    /\ [](\A maker \in Accounts, i \in 1..MaxOrders, j \in 1..MaxOrders :
             /\ i # j
             /\ orders[maker][i].id # 0 /\ orders[maker][j].id # 0
             /\ orders[maker][i].successorOrderId # 0
             => orders[maker][i].successorOrderId # orders[maker][j].successorOrderId)
    /\ [][\A maker \in Accounts, i \in 1..MaxOrders :
             /\ orders[maker][i].successorOrderId # 0
             /\ orders'[maker][i].id # 0
             => orders'[maker][i].successorOrderId = orders[maker][i].successorOrderId]_vars

\* alice's order 1 names order 2 as its successor and order 2 is gone: a sound
\* create that names order 1 fails because order 1 has a successor, and one
\* that names order 2 fails because order 2 does not exist
C26_Witness ==
    /\ orders[alice][1].id = 1 /\ orders[alice][1].successorOrderId = 2
    /\ orders[alice][2].id = 0 /\ orderCount[alice] = 2
    /\ \E input \in AnyCreate :
          /\ isSoundCreate(input) /\ input.ancestorOrderId = 1
          /\ callMakeOrder(State, killSwitchIsOn, alice, input).err = ERR_HAS_SUCCESSOR
    /\ \E input \in AnyCreate :
          /\ isSoundCreate(input) /\ input.ancestorOrderId = 2
          /\ callMakeOrder(State, killSwitchIsOn, alice, input).err = ERR_NO_ANCESTOR

\* ------------------------------------------------------------------ C27
ChainIds == 1..MaxChain

\* a hidden order whose ancestor is gone: its ancestor was cancelled before it
\* could reveal it
isOrphan(os, maker, id) ==
    /\ os[maker][id].id # 0
    /\ os[maker][id].isHidden
    /\ os[maker][id].ancestorOrderId \in ChainIds
    /\ os[maker][os[maker][id].ancestorOrderId].id = 0

AnyChainTake ==
    {TakeOrderInput(alice, i, v, ValueLimit * Ether) : i \in ChainIds, v \in 1..MintAmount}

\* C27: for a chain A -> B -> C, cancelling B while A still exists succeeds,
\* leaves A as it was, with successorOrderId = B.id, leaves every other order
\* as it was and B absent; a later full fill of such an A, whose successor is
\* absent, succeeds when the taker can pay and changes no order but A, which
\* it destroys; C, hidden with its ancestor gone, cannot be filled by anyone,
\* its maker's cancel succeeds, destroys it and refunds it, and in every step
\* it either stays hidden with its ancestor absent or is destroyed by a cancel
\* that refunds its maker.
C27_OrphanedChain ==
    /\ [](\A B \in ChainIds :
             LET b == orders[alice][B]
                 a == getOrder(State, alice, b.ancestorOrderId)
                 r == callCancelOrder(State, killSwitchIsOn, alice, CancelOrderInput(alice, B))
             IN  b.id # 0 /\ b.isHidden /\ a.id # 0 =>
                    /\ r.err = ERR_NONE
                    /\ a.successorOrderId = B
                    /\ r.s.orders = [orders EXCEPT ![alice][B] = nullOrder])
    /\ [](\A A \in ChainIds, taker \in Accounts :
             LET a == orders[alice][A]
                 r == callTakeOrder(State, killSwitchIsOn, taker,
                                    TakeOrderInput(alice, A, a.takerValue, ValueLimit * Ether))
             IN  /\ a.id # 0 /\ ~a.isHidden
                 /\ a.successorOrderId # 0
                 /\ getOrder(State, alice, a.successorOrderId).id = 0
                 /\ balances[taker][a.pair.takerContractAddress] >= a.takerValue
                 => /\ r.err = ERR_NONE
                    /\ r.s.orders = [orders EXCEPT ![alice][A] = nullOrder])
    /\ [](\A C \in ChainIds :
             isOrphan(orders, alice, C) =>
                LET c == orders[alice][C]
                    gone == CancelOrderInput(alice, c.ancestorOrderId)
                    r == callCancelOrder(State, killSwitchIsOn, alice, CancelOrderInput(alice, C))
                IN  /\ \A taker \in Accounts, input \in AnyChainTake :
                          input.id \in {C, c.ancestorOrderId} =>
                             LET t == callTakeOrder(State, killSwitchIsOn, taker, input)
                             IN  t.err = ERR_NOT_FOUND /\ t.s = State
                    /\ callCancelOrder(State, killSwitchIsOn, alice, gone).err = ERR_NOT_FOUND
                    /\ r.err = ERR_NONE
                    /\ r.s.orders = [orders EXCEPT ![alice][C] = nullOrder]
                    /\ r.s.balances = moved(balances, c.pair.makerContractAddress,
                                            DUBIEX, alice, c.makerValue))
    /\ [][\A C \in ChainIds :
             isOrphan(orders, alice, C) =>
                \/ /\ isOrphan(orders', alice, C)
                   /\ orders'[alice][C].ancestorOrderId = orders[alice][C].ancestorOrderId
                \/ /\ orders'[alice][C] = nullOrder
                   /\ balances' = moved(balances, orders[alice][C].pair.makerContractAddress,
                                        DUBIEX, alice, orders[alice][C].makerValue)]_vars

\* alice chained 1 -> 2 -> 3 and cancelled order 2 while order 1 was open:
\* order 1 still names order 2, bob's full fill of order 1 succeeds and leaves
\* order 3 hidden, after which order 3 cannot be filled and alice's cancel of
\* it succeeds
C27_Witness ==
    /\ orders[alice][1].id = 1 /\ ~orders[alice][1].isHidden
    /\ orders[alice][1].successorOrderId = 2
    /\ orders[alice][2] = nullOrder
    /\ orders[alice][3].id = 3 /\ orders[alice][3].ancestorOrderId = 2
    /\ isOrphan(orders, alice, 3)
    /\ LET r == callTakeOrder(State, killSwitchIsOn, bob,
                              TakeOrderInput(alice, 1, 1, ValueLimit * Ether))
       IN  /\ r.err = ERR_NONE
           /\ r.s.orders[alice][1] = nullOrder
           /\ r.s.orders[alice][3] = orders[alice][3]
           /\ callTakeOrder(r.s, killSwitchIsOn, bob,
                            TakeOrderInput(alice, 3, 1, ValueLimit * Ether)).err = ERR_NOT_FOUND
           /\ callCancelOrder(r.s, killSwitchIsOn, alice, CancelOrderInput(alice, 3)).err = ERR_NONE

\* ------------------------------------------------------------------ C28
\* a relayed message that offers fuel
Fueled(message, fuel) == message @@ [fuel |-> fuel]

Fuels == 0..(MaxBoosterFuel + 1)

\* the relayed single calls, with and without fuel
RelayedCalls ==
    {[op |-> "boostedMakeOrder", arg |-> Fueled(m, f)] : m \in AnyRelayMake, f \in Fuels}
    \cup {[op |-> "boostedTakeOrder", arg |-> Fueled(m, f)] : m \in AnyRelayTake, f \in Fuels}
    \cup {[op |-> "boostedCancelOrder", arg |-> Fueled(m, f)] : m \in AnyRelayCancel, f \in Fuels}

RelayedOutcome(c) ==
    CASE c.op = "boostedMakeOrder" -> callBoostedMakeOrder(State, killSwitchIsOn, c.arg)
      [] c.op = "boostedTakeOrder" -> callBoostedTakeOrder(State, killSwitchIsOn, c.arg)
      [] c.op = "boostedCancelOrder" -> callBoostedCancelOrder(State, killSwitchIsOn, c.arg)

\* what the caller of a relayed message is debited the fuel from
fuelPayer(c) == IF c.op = "boostedCancelOrder" THEN c.arg.input.maker ELSE c.arg.signer

\* C28: a single-item call, direct or relayed, that fails leaves orders, id
\* counters, pair aliases, nonces and balances as they were; and it does fail
\* on a create with makerValue or takerValue 0, with an incompatible pair or
\* with more to deposit than the maker holds, on an update with ratio 0, on a
\* fill of amount 0 or of more than the taker holds, and on a relayed message
\* that offers more fuel than the maximum or than its signer holds.
C28_FailedCallChangesNothing ==
    /\ \A c \in SingleCalls : Outcome(c).err # ERR_NONE => Outcome(c).s = State
    /\ \A c \in RelayedCalls : RelayedOutcome(c).err # ERR_NONE => RelayedOutcome(c).s = State
    /\ \A c \in SingleCalls :
          LET o == getOrder(State, c.arg.maker, c.arg.id) IN
          \/ /\ c.op = "makeOrder" /\ c.arg.orderId = 0
             /\ \/ c.arg.makerValue = 0 \/ c.arg.takerValue = 0
                \/ validatePair(c.arg.pair) # ERR_NONE
                \/ /\ c.arg.pair.makerContractAddress = Dubi
                   /\ c.arg.makerValue > balances[c.sender][Dubi]
          \/ c.op = "makeOrder" /\ c.arg.orderId # 0 /\ c.arg.updatedRatioWei = 0
          \/ c.op = "takeOrder" /\ c.arg.takerValue = 0
          \/ /\ c.op = "takeOrder" /\ o.id # 0 /\ o.pair.takerContractAddress = Purpose
             /\ Min(c.arg.takerValue, o.takerValue) > balances[c.sender][Purpose]
          => isRejected(Outcome(c))
    /\ \A c \in RelayedCalls :
          \/ c.arg.fuel > MaxBoosterFuel
          \/ c.arg.fuel > balances[fuelPayer(c)][Dubi]
          => isRejected(RelayedOutcome(c))

\* alice holds one DUBI and has an open order: her create of two DUBI fails on
\* the deposit, her own fill on the settlement, her signed cancel fails with
\* fuel above the maximum and with fuel two, which she cannot pay, and goes
\* through with fuel one, which is burned from what the cancel refunds her
C28_Witness ==
    /\ balances[alice][Dubi] = 1
    /\ orders[alice][1].id = 1 /\ ~orders[alice][1].isHidden
    /\ orders[alice][1].pair = DubiPurpose /\ orders[alice][1].makerValue = MintAmount - 1
    /\ ~killSwitchIsOn
    /\ callMakeOrder(State, killSwitchIsOn, alice,
                     MakeOrderInput(2, 2, DubiPurpose, 0, 0, 0)).err = ERR_BALANCE
    /\ callTakeOrder(State, killSwitchIsOn, alice,
                     TakeOrderInput(alice, 1, 1, ValueLimit * Ether)).err = ERR_BALANCE
    /\ \E m \in AnyRelayCancel :
          /\ m.input = CancelOrderInput(alice, 1)
          /\ callBoostedCancelOrder(State, killSwitchIsOn,
                                    Fueled(m, MaxBoosterFuel + 1)).err = ERR_FUEL_MAX
          /\ callBoostedCancelOrder(State, killSwitchIsOn, Fueled(m, 2)).err = ERR_FUEL_BALANCE
          /\ callBoostedCancelOrder(State, killSwitchIsOn, Fueled(m, 1)).err = ERR_NONE
          /\ callBoostedCancelOrder(State, killSwitchIsOn, Fueled(m, 1)).s.balances[alice][Dubi]
                = MintAmount - 1

\* ------------------------------------------------------------------ C29
\* a list of updates went through, the one of the missing order x applied to
\* nothing and the one of y as its single call applies it
appliedAround(r, maker, x, y) ==
    LET o == getOrder(State, maker, y.orderId)
        alone == callMakeOrder(State, killSwitchIsOn, maker, y)
    IN  /\ r.err = ERR_NONE
        /\ r.s.balances = balances /\ r.s.heroOwner = heroOwner
        /\ r.s.orderCount = orderCount
        /\ getOrder(r.s, maker, x.orderId) = nullOrder
        /\ r.s.orders = alone.s.orders
        /\ o.id # 0 =>
              getOrder(r.s, maker, y.orderId) =
                 [o EXCEPT !.takerValue = (o.makerValue * y.updatedRatioWei) \div Ether]

\* C29: with the kill switch off, in a direct and in a relayed list of create or
\* update items, an update item x of an order that does not exist does not
\* fail the call: x alone succeeds and changes nothing (but the signer's nonce
\* when relayed); next to an update y that succeeds as a single call, in either
\* order, the call succeeds, y's order keeps its makerValue and gets the
\* takerValue floor(makerValue * ratio / Ether), the missing order stays
\* absent, every other order and all balances stay as they were, and a relayed
\* list uses up one nonce per item.
C29_MissingUpdateSkipped ==
    \A maker \in Accounts, x \in UpdateInputs, y \in UpdateInputs :
        LET alone == callMakeOrder(State, killSwitchIsOn, maker, y)
            direct(list) == callMakeOrders(State, killSwitchIsOn, maker, list)
            relayed(list) == makeBatch(State, signedList(makeBatch, State, maker, list))
        IN  ~killSwitchIsOn /\ getOrder(State, maker, x.orderId).id = 0 =>
               /\ direct(<<x>>).err = ERR_NONE /\ direct(<<x>>).s = State
               /\ nonces[maker] < MaxNonce =>
                     /\ relayed(<<x>>).err = ERR_NONE
                     /\ relayed(<<x>>).s = [State EXCEPT !.nonces[maker] = @ + 1]
               /\ alone.err = ERR_NONE =>
                     \A list \in {<<x, y>>, <<y, x>>} :
                        /\ appliedAround(direct(list), maker, x, y)
                        /\ direct(list).s.nonces = nonces
                        /\ appliedAround(relayed(list), maker, x, y)
                        /\ relayed(list).s.nonces = [nonces EXCEPT ![maker] = @ + 2]

\* alice's order 1 was filled and is gone and her order 2 is open: the lists
\* that update both to ratio 1, direct and relayed, go through and lower the
\* takerValue of order 2
C29_Witness ==
    /\ orderCount[alice] = 2 /\ orders[alice][1].id = 0
    /\ balances[bob][Dubi] > 0
    /\ orders[alice][2].id = 2 /\ ~orders[alice][2].isHidden
    /\ isFungiblePair(orders[alice][2].pair)
    /\ ~killSwitchIsOn
    /\ LET x == MakeOrderInput(1, 1, nullPair, 1, 0, 1)
           y == MakeOrderInput(1, 1, nullPair, 2, 0, Ether)
           direct == callMakeOrders(State, killSwitchIsOn, alice, <<x, y>>)
           relayed == makeBatch(State, signedList(makeBatch, State, alice, <<x, y>>))
       IN  /\ direct.err = ERR_NONE /\ relayed.err = ERR_NONE
           /\ direct.s.orders[alice][2].takerValue = orders[alice][2].makerValue
           /\ direct.s.orders[alice][2].takerValue < orders[alice][2].takerValue
           /\ relayed.s.orders = direct.s.orders

\* ------------------------------------------------------------------ C30
\* the item names an existing order that is not the caller's
isForeign(caller, input) ==
    input.maker # caller /\ getOrder(State, input.maker, input.id).id # 0

\* the state with the existing orders of a list destroyed and refunded to
\* their makers
RECURSIVE cancelledAll(_, _)
cancelledAll(s, inputs) ==
    IF inputs = <<>> THEN s
    ELSE LET r == cancelOrderInternal(s, Head(inputs).maker, Head(inputs), FALSE)
         IN  cancelledAll(r.s, Tail(inputs))

\* C30 as stated: with the kill switch off, a cancelOrders list with an item
\* that names an existing order of another maker succeeds, cancels the
\* caller's own orders in the list and leaves the other maker's order as it is
C30_Original ==
    \A caller \in Accounts, own \in AnyCancel, other \in AnyCancel :
        LET r == callCancelOrders(State, FALSE, caller, <<other, own>>)
        IN  /\ isForeign(caller, other)
            /\ own.maker = caller /\ getOrder(State, caller, own.id).id # 0
            => /\ r.err = ERR_NONE
               /\ getOrder(r.s, caller, own.id).id = 0
               /\ getOrder(r.s, other.maker, other.id) = getOrder(State, other.maker, other.id)

\* C30: with the kill switch off, a cancelOrders list with an item that names
\* an existing order of another maker fails with the not-the-maker error and
\* cancels nothing, the caller's own orders in the list included, wherever the
\* item stands in the list; a list without such an item succeeds and destroys
\* and refunds exactly the caller's existing orders it names. With the kill
\* switch on the same lists succeed and destroy every existing order they
\* name, each refunded to its maker.
C30_ForeignItemFailsBatch ==
    \A caller \in Accounts, a \in AnyCancel, b \in AnyCancel :
        \A list \in {<<a>>, <<a, b>>, <<b, a>>} :
            LET off == callCancelOrders(State, FALSE, caller, list)
                on == callCancelOrders(State, TRUE, caller, list)
                foreign == \E i \in 1..Len(list) : isForeign(caller, list[i])
            IN  /\ foreign => off.err = ERR_NOT_MAKER /\ off.s = State
                /\ ~foreign => off.err = ERR_NONE /\ off.s = cancelledAll(State, list)
                /\ on.err = ERR_NONE /\ on.s = cancelledAll(State, list)

\* alice and bob each have an open order 1: bob's list of both fails in either
\* order with the kill switch off and leaves both orders, and with the kill
\* switch on it destroys both
C30_Witness ==
    /\ orders[alice][1].id = 1 /\ orders[bob][1].id = 1
    /\ ~killSwitchIsOn
    /\ LET list == <<CancelOrderInput(alice, 1), CancelOrderInput(bob, 1)>>
           tsil == <<CancelOrderInput(bob, 1), CancelOrderInput(alice, 1)>>
           on == callCancelOrders(State, TRUE, bob, list)
       IN  /\ callCancelOrders(State, killSwitchIsOn, bob, list).err = ERR_NOT_MAKER
           /\ callCancelOrders(State, killSwitchIsOn, bob, tsil).err = ERR_NOT_MAKER
           /\ callCancelOrders(State, killSwitchIsOn, bob, tsil).s.orders = orders
           /\ on.err = ERR_NONE
           /\ on.s.orders[alice][1].id = 0 /\ on.s.orders[bob][1].id = 0
           /\ on.s.balances[alice][Dubi] > balances[alice][Dubi]

\* ------------------------------------------------------------------ C31
\* C31: while the kill switch is off, an update with ratio q > 0 of a hidden
\* order of the caller with makerValue m, both assets fungible and
\* floor(m * q / Ether) below ValueLimit succeeds, directly, as a list of one
\* and relayed: the order gets takerValue floor(m * q / Ether) and is otherwise
\* as it was, hidden and with its ancestor link; its ancestor and every other
\* order are unchanged; and it still cannot be filled.
C31_HiddenOrderUpdated ==
    \A maker \in Accounts, input \in AnyUpdate :
        LET o == getOrder(State, maker, input.orderId)
            t == (o.makerValue * input.updatedRatioWei) \div Ether
            updated == [o EXCEPT !.takerValue = t]
            r == callMakeOrder(State, killSwitchIsOn, maker, input)
            list == callMakeOrders(State, killSwitchIsOn, maker, <<input>>)
            relayed == makeOne(State, signedMake(maker, input))
        IN  /\ ~killSwitchIsOn /\ o.id # 0 /\ o.isHidden
            /\ isFungiblePair(o.pair) /\ input.updatedRatioWei > 0 /\ t < ValueLimit
            => /\ r.err = ERR_NONE /\ list.err = ERR_NONE /\ relayed.err = ERR_NONE
               /\ \A after \in {r.s, list.s, relayed.s} :
                     /\ after.orders = [orders EXCEPT ![maker][input.orderId] = updated]
                     /\ getOrder(after, maker, input.orderId).isHidden
                     /\ getOrder(after, maker, input.orderId).ancestorOrderId = o.ancestorOrderId
                     /\ after.balances = balances
                     /\ \A taker \in Accounts :
                           callTakeOrder(after, killSwitchIsOn, taker,
                                         TakeOrderInput(maker, input.orderId, 1, ValueLimit * Ether)).err
                              = ERR_NOT_FOUND

\* alice's order 2 sits hidden behind her open order 1 and offers 3 for 3: the
\* update to the price 1/Ether goes through and leaves it hidden, asking 1
C31_Witness ==
    /\ ~killSwitchIsOn
    /\ orders[alice][1].id = 1 /\ ~orders[alice][1].isHidden
    /\ orders[alice][1].successorOrderId = 2
    /\ orders[alice][2].id = 2 /\ orders[alice][2].isHidden
    /\ orders[alice][2].ancestorOrderId = 1
    /\ orders[alice][2].makerValue = 3 /\ orders[alice][2].takerValue = 3
    /\ LET r == callMakeOrder(State, killSwitchIsOn, alice, MakeOrderInput(1, 1, nullPair, 2, 0, 1))
       IN  /\ r.err = ERR_NONE
           /\ r.s.orders[alice][2].takerValue = (3 * 1) \div Ether
           /\ r.s.orders[alice][2].isHidden

BatchTakes == {TakeOrderInput(alice, i, v, ValueLimit * Ether) : i \in ChainIds, v \in {1, 2}}

\* the state one item of an isolated fill batch leaves: what the single fill
\* leaves when it goes through, and the state it found when it is skipped
afterItem(s, taker, input) ==
    LET r == callTakeOrder(s, FALSE, taker, input)
    IN  IF r.err = ERR_NONE THEN r.s ELSE s

\* the single fill goes through or fails in a way a batch skips
appliesOrSkips(s, taker, input) ==
    callTakeOrder(s, FALSE, taker, input).err \in {ERR_NONE, ERR_NOT_FOUND}

\* the fill destroys the order it names
exhausts(s, taker, input) ==
    /\ callTakeOrder(s, FALSE, taker, input).err = ERR_NONE
    /\ getOrder(afterItem(s, taker, input), input.maker, input.id).id = 0

\* C33: the items of a fill batch are applied in list order, each against the
\* state left by the items before it: a batch of three fills, each of which
\* goes through or is skipped in its turn, succeeds and leaves the state that
\* the three single fills leave one after the other; so a successor that is
\* hidden before the call and revealed by the full fill of the first item is
\* filled by the second, two items on one order take what the two amounts take
\* together, and an item that comes after the item that exhausted its order
\* changes nothing.
C33_BatchInListOrder ==
    \A taker \in Accounts, a \in BatchTakes, b \in BatchTakes, c \in BatchTakes :
        LET s1 == afterItem(State, taker, a)
            s2 == afterItem(s1, taker, b)
            s3 == afterItem(s2, taker, c)
            two == callTakeOrders(State, FALSE, taker, <<a, b>>)
            three == callTakeOrders(State, FALSE, taker, <<a, b, c>>)
            o == getOrder(State, a.maker, a.id)
        IN  /\ appliesOrSkips(State, taker, a) /\ appliesOrSkips(s1, taker, b)
               => /\ two.err = ERR_NONE /\ two.s = s2
                  /\ appliesOrSkips(s2, taker, c) => three.err = ERR_NONE /\ three.s = s3
                  /\ exhausts(State, taker, a) /\ o.successorOrderId = b.id
                     /\ getOrder(State, b.maker, b.id).isHidden
                     => /\ callTakeOrder(State, FALSE, taker, b).err = ERR_NOT_FOUND
                        /\ callTakeOrder(s1, FALSE, taker, b).err = ERR_NONE
                        /\ two.s.orders[b.maker][b.id] # orders[b.maker][b.id]
                  /\ a.id = b.id /\ ~exhausts(State, taker, a)
                     /\ callTakeOrder(State, FALSE, taker, a).err = ERR_NONE
                     /\ callTakeOrder(s1, FALSE, taker, b).err = ERR_NONE
                     => /\ taker # a.maker
                           => balances[taker][Purpose] - two.s.balances[taker][Purpose]
                                  = Min(o.takerValue, a.takerValue + b.takerValue)
                        /\ getOrder(two.s, a.maker, a.id).takerValue
                               = o.takerValue - Min(o.takerValue, a.takerValue + b.takerValue)
                  /\ a.id = b.id /\ exhausts(State, taker, a)
                     => /\ callTakeOrder(s1, FALSE, taker, b).err = ERR_NOT_FOUND
                        /\ two.s = s1

\* alice has the chain 1 -> 2 with order 2 hidden and asking for two: bob's
\* batch of a fill of 1 and two fills of 2 destroys 1, reveals 2 and takes it
\* in two parts; the same items with 1 last leave order 2 as it was but
\* revealed; and in his batch of two fills of 1 and one of 2 the second item
\* is skipped
C33_Witness ==
    /\ ~killSwitchIsOn
    /\ orders[alice][1].id = 1 /\ ~orders[alice][1].isHidden /\ orders[alice][1].takerValue = 1
    /\ orders[alice][2].id = 2 /\ orders[alice][2].isHidden /\ orders[alice][2].takerValue = 2
    /\ orders[alice][1].successorOrderId = 2
    /\ LET take(i) == TakeOrderInput(alice, i, 1, ValueLimit * Ether)
           r == callTakeOrders(State, killSwitchIsOn, bob, <<take(1), take(2), take(2)>>)
           back == callTakeOrders(State, killSwitchIsOn, bob, <<take(2), take(2), take(1)>>)
           again == callTakeOrders(State, killSwitchIsOn, bob, <<take(1), take(1), take(2)>>)
       IN  /\ r.err = ERR_NONE
           /\ r.s.orders[alice][1].id = 0 /\ r.s.orders[alice][2].id = 0
           /\ r.s.balances[bob][Purpose] = balances[bob][Purpose] - 3
           /\ r.s.balances[bob][Dubi] = balances[bob][Dubi] + 2
           /\ back.err = ERR_NONE
           /\ back.s.orders[alice][1].id = 0
           /\ back.s.orders[alice][2] = [orders[alice][2] EXCEPT !.isHidden = FALSE]
           /\ again.err = ERR_NONE
           /\ again.s.orders[alice][1].id = 0
           /\ again.s.orders[alice][2].takerValue = 1
           /\ again.s.balances[bob][Purpose] = balances[bob][Purpose] - 2

\* ------------------------------------------------------------------ C34
NativeMakes ==
    {MakeOrderInput(m, 1, pair, 0, 0, 0) : m \in {1, 2}, pair \in {EtherPurpose, DubiEther, DubiPurpose}}

NativeTakes ==
    {TakeOrderInput(alice, i, v, ValueLimit * Ether) : i \in 0..MaxOrders, v \in {0, 1, 2, MintAmount}}

\* the native currency a holder has
eth(s, holder) == s.balances[holder][ZERO_ADDRESS]

\* the native currency an item consumes when it is applied: the deposit of a
\* create with a native maker asset, the filled amount of a fill of an order
\* with a native taker asset
nativeOfMake(input) ==
    IF input.orderId = 0 /\ input.pair.makerCurrencyType = ETH THEN input.makerValue ELSE 0

nativeOfTake(s, input) ==
    LET o == getOrder(s, input.maker, input.id)
    IN  IF o.pair.takerCurrencyType = ETH THEN Min(input.takerValue, o.takerValue) ELSE 0

\* the native currency a fill pays out to the taker when it is applied: the
\* filled part of a native maker asset
nativeToTaker(s, input) ==
    LET o == getOrder(s, input.maker, input.id)
    IN  IF o.pair.makerCurrencyType = ETH
        THEN (o.makerValue * Min(input.takerValue, o.takerValue)) \div o.takerValue
        ELSE 0

\* what the applied items of a fill list of at most two consume out of value
\* (c) and pay out to the taker (g)
nativeOfTakes(s, taker, value, inputs) ==
    IF inputs = <<>> THEN [c |-> 0, g |-> 0]
    ELSE LET r1 == takeOrderInternal(receiveValue(s, taker, value), taker, inputs[1])
             s1 == IF r1.err = ERR_NONE THEN r1.s ELSE receiveValue(s, taker, value)
             applied1 == r1.err = ERR_NONE
             applied2 == Len(inputs) = 2 /\ takeOrderInternal(s1, taker, inputs[2]).err = ERR_NONE
         IN  [c |-> (IF applied1 THEN nativeOfTake(s, inputs[1]) ELSE 0)
                    + (IF applied2 THEN nativeOfTake(s1, inputs[2]) ELSE 0),
              g |-> (IF applied1 THEN nativeToTaker(s, inputs[1]) ELSE 0)
                    + (IF applied2 THEN nativeToTaker(s1, inputs[2]) ELSE 0)]

\* everything but the native currency balances
withoutEth(s) ==
    [s EXCEPT !.balances = [h \in Holders |-> [t \in FungibleTokens |-> s.balances[h][t]]]]

\* the outcome r of a call by sender that carried value, consumed c of it and
\* paid g out to the sender
isSettledNative(r, sender, value, c, g) ==
    /\ c <= value
    /\ eth(r.s, sender) = eth(State, sender) - c + g
    /\ r.s.excessEth = 0
    /\ eth(r.s, alice) + eth(r.s, bob) + eth(r.s, DUBIEX)
           = eth(State, alice) + eth(State, bob) + eth(State, DUBIEX)

\* C34 as stated: the caller of a fill batch that goes through with v native
\* units sent ends the call with exactly the c units less that the applied
\* native-taker fills consume
C34_Original ==
    \A value \in 0..eth(State, bob), inputs \in Lists(NativeTakes) :
        LET r == payTakeOrders(State, FALSE, bob, value, inputs)
        IN  r.err = ERR_NONE
            => eth(r.s, bob) = eth(State, bob) - nativeOfTakes(State, bob, value, inputs).c

\* C34: with the kill switch off, a call that goes through with v native units
\* sent consumes the c <= v units its applied items need and returns the rest,
\* so that the caller ends the call with c less, plus the native currency g
\* the call pays out to the caller as the maker asset of the orders it fills:
\* for makeOrders by alice c is the sum of the maker deposits of its
\* native-maker creates, which the exchange then holds, and g is 0; for
\* takeOrder and takeOrders by bob c is the sum of the filled taker amounts of
\* the native-taker fills that were applied, which alice receives, and g the
\* sum of the filled maker amounts of the native-maker fills that were
\* applied, which the exchange pays; items an isolated batch skips consume
\* nothing; a call whose items need no native currency has the outcome of the
\* call without native currency; the outcome is the same for every v >= c, and
\* nothing of v is left with the call.
C34_NativeAccounting ==
    /\ \A value \in 0..eth(State, alice), inputs \in Lists(NativeMakes) :
          LET r == payMakeOrders(State, FALSE, alice, value, inputs)
              c == IF inputs = <<>> THEN 0
                   ELSE IF Len(inputs) = 1 THEN nativeOfMake(inputs[1])
                   ELSE nativeOfMake(inputs[1]) + nativeOfMake(inputs[2])
          IN  r.err = ERR_NONE
              => /\ isSettledNative(r, alice, value, c, 0)
                 /\ eth(r.s, DUBIEX) = eth(State, DUBIEX) + c
                 /\ r = payMakeOrders(State, FALSE, alice, c, inputs)
                 /\ c = 0 => r = callMakeOrders(State, FALSE, alice, inputs)
    /\ \A value \in 0..eth(State, bob), input \in NativeTakes :
          LET r == payTakeOrder(State, FALSE, bob, value, input)
              c == nativeOfTake(State, input)
              g == nativeToTaker(State, input)
          IN  r.err = ERR_NONE
              => /\ isSettledNative(r, bob, value, c, g)
                 /\ eth(r.s, alice) = eth(State, alice) + c
                 /\ eth(r.s, DUBIEX) = eth(State, DUBIEX) - g
                 /\ r = payTakeOrder(State, FALSE, bob, c, input)
                 /\ c = 0 => r = callTakeOrder(State, FALSE, bob, input)
    /\ \A value \in 0..eth(State, bob), inputs \in Lists(NativeTakes) :
          LET r == payTakeOrders(State, FALSE, bob, value, inputs)
              n == nativeOfTakes(State, bob, value, inputs)
          IN  r.err = ERR_NONE
              => /\ isSettledNative(r, bob, value, n.c, n.g)
                 /\ eth(r.s, alice) = eth(State, alice) + n.c
                 /\ eth(r.s, DUBIEX) = eth(State, DUBIEX) - n.g
                 /\ r = payTakeOrders(State, FALSE, bob, n.c, inputs)
                 /\ n.c = 0 => r = callTakeOrders(State, FALSE, bob, inputs)

\* alice has an open order 1 selling DUBI for two native units and an open
\* order 2 selling one native unit for PRPS: bob's batch of a fill of order 1
\* for more than it asks, a fill of order 2 and, in a second call, a fill of
\* an order that does not exist, each sent with all his native currency,
\* costs him two units, which alice receives, and pays him one
C34_Witness ==
    /\ ~killSwitchIsOn
    /\ orders[alice][1].id = 1 /\ orders[alice][1].pair = DubiEther /\ orders[alice][1].takerValue = 2
    /\ orders[alice][2].id = 2 /\ orders[alice][2].pair = EtherPurpose
    /\ orders[alice][2].makerValue = 1
    /\ balances[bob][ZERO_ADDRESS] = MintAmount
    /\ LET take == payTakeOrders(State, killSwitchIsOn, bob, MintAmount,
                       <<TakeOrderInput(alice, 1, MintAmount, ValueLimit * Ether),
                         TakeOrderInput(alice, 2, 1, ValueLimit * Ether)>>)
           none == payTakeOrders(State, killSwitchIsOn, bob, MintAmount,
                       <<TakeOrderInput(alice, 0, 1, ValueLimit * Ether)>>)
       IN  /\ take.err = ERR_NONE
           /\ take.s.balances[bob][ZERO_ADDRESS] = MintAmount - 2 + 1
           /\ take.s.balances[alice][ZERO_ADDRESS] = balances[alice][ZERO_ADDRESS] + 2
           /\ take.s.balances[DUBIEX][ZERO_ADDRESS] = balances[DUBIEX][ZERO_ADDRESS] - 1
           /\ take.s.orders[alice][1].id = 0 /\ take.s.orders[alice][2].id = 0
           /\ none.err = ERR_NONE /\ none.s = State

\* ------------------------------------------------------------------ C35
\* the same operation called directly by the account the relayed call acts for
DirectOutcome(c) ==
    CASE c.op = "boostedMakeOrder" -> callMakeOrder(State, killSwitchIsOn, fuelPayer(c), c.arg.input)
      [] c.op = "boostedTakeOrder" -> callTakeOrder(State, killSwitchIsOn, fuelPayer(c), c.arg.input)
      [] c.op = "boostedCancelOrder" -> callCancelOrder(State, killSwitchIsOn, fuelPayer(c), c.arg.input)

\* the state with a relayer that holds native currency
withRelayer(s) ==
    [s EXCEPT !.balances = (booster :> [t \in FungibleTokens \cup {ZERO_ADDRESS} |->
                                           IF t = ZERO_ADDRESS THEN MintAmount ELSE 0]) @@ @]

\* relayed creates that sell native currency
NativeRelayMakes ==
    {Boosted(MakeOrderInput(m, 1, EtherPurpose, 0, 0, 0), signer, signer, n) :
        m \in {1, 2}, signer \in Accounts, n \in 1..(MaxNonce + 1)}

\* the relayer sends value with a relayed create
relayedWithValue(message, value) ==
    refundExcessEth(withRelayer(State), booster,
        callBoostedMakeOrder(receiveValue(withRelayer(State), booster, value),
                             killSwitchIsOn, message))

\* the signer sends value with the same create
directWithValue(message, value) ==
    payMakeOrders(withRelayer(State), killSwitchIsOn, message.signer, value, <<message.input>>)

\* C35: a relayed create, fill or cancel that is accepted for signer S, with
\* or without fuel, leaves the order table, the id counters, the alias table
\* and the owners of the collectibles as the same operation called directly
\* by S in the same state does, which also goes through: a created order is
\* stored under S with S's next id and a fill credits S; the balances differ
\* by the fuel, which S is debited in DUBI; the nonces differ in that of S,
\* which the relayed call leaves as it was or one higher, and the direct call
\* leaves all nonces as they were. When the relayer sends the native currency
\* of a create that sells native currency, the relayer is debited what the
\* order deposits and refunded the rest, the native currency of S is as it
\* was, and the order table, the id counters and the alias table are as after
\* the same create sent by S with native currency of its own.
C35_RelayedAsDirect ==
    /\ \A c \in RelayedCalls :
          LET r == RelayedOutcome(c)
              d == DirectOutcome(c)
              S == fuelPayer(c)
          IN  r.err = ERR_NONE
              => /\ d.err = ERR_NONE
                 /\ r.s.orders = d.s.orders
                 /\ r.s.orderCount = d.s.orderCount
                 /\ r.s.pairAliases = d.s.pairAliases
                 /\ r.s.heroOwner = d.s.heroOwner
                 /\ r.s.balances = [d.s.balances EXCEPT ![S][Dubi] = @ - fuelOf(c.arg)]
                 /\ d.s.nonces = nonces
                 /\ r.s.nonces \in {nonces, [nonces EXCEPT ![S] = @ + 1]}
                 /\ c.op = "boostedMakeOrder" /\ c.arg.input.orderId = 0
                    /\ orderCount[S] < MaxOrders
                    => /\ r.s.orderCount[S] = orderCount[S] + 1
                       /\ r.s.orders[S][orderCount[S] + 1].id = orderCount[S] + 1
                       /\ \A a \in Accounts \ {S} : r.s.orders[a] = orders[a]
    /\ \A message \in NativeRelayMakes, value \in 0..MintAmount :
          LET r == relayedWithValue(message, value)
              S == message.signer
              d == directWithValue(message, message.input.makerValue)
          IN  r.err = ERR_NONE
              => /\ message.input.makerValue <= value
                 /\ eth(r.s, booster) = MintAmount - message.input.makerValue
                 /\ eth(r.s, S) = eth(State, S)
                 /\ eth(r.s, DUBIEX) = eth(State, DUBIEX) + message.input.makerValue
                 /\ r.s.excessEth = 0
                 /\ eth(State, S) >= message.input.makerValue
                    => /\ d.err = ERR_NONE
                       /\ r.s.orders = d.s.orders
                       /\ r.s.orderCount = d.s.orderCount
                       /\ r.s.pairAliases = d.s.pairAliases
                       /\ eth(d.s, S) = eth(State, S) - message.input.makerValue

\* alice has an open order 1 selling DUBI and holds DUBI, bob holds PRPS and no
\* DUBI: the relayed fill signed by bob goes through and gives bob the DUBI and
\* the next nonce; bob's relayed create selling PRPS goes through and is stored
\* as his order 1; alice's relayed cancel of order 1 with fuel goes through and
\* leaves her the refund less the fuel; and her relayed create selling one
\* native unit, with the relayer sending more, leaves the relayer one unit
\* short and her native currency as it was
C35_Witness ==
    /\ ~killSwitchIsOn
    /\ orders[alice][1].id = 1 /\ orders[alice][1].pair = DubiPurpose /\ ~orders[alice][1].isHidden
    /\ orders[alice][1].makerValue = 2 /\ orders[alice][1].takerValue = 2
    /\ orderCount[alice] = 1 /\ balances[alice][Dubi] = 1 /\ balances[bob][Dubi] = 0
    /\ nonces[alice] = 1 /\ nonces[bob] = 0
    /\ LET take == callBoostedTakeOrder(State, killSwitchIsOn,
                       Boosted(TakeOrderInput(alice, 1, 2, ValueLimit * Ether), bob, bob, 1))
           make == callBoostedMakeOrder(State, killSwitchIsOn,
                       Fueled(Boosted(MakeOrderInput(1, 1, PurposeDubi, 0, 0, 0), bob, bob, 1), 0))
           cancel == callBoostedCancelOrder(State, killSwitchIsOn,
                       Fueled(Boosted(CancelOrderInput(alice, 1), alice, alice, 2), 1))
           native == relayedWithValue(
                       Boosted(MakeOrderInput(1, 1, EtherPurpose, 0, 0, 0), alice, alice, 2), 2)
       IN  /\ take.err = ERR_NONE
           /\ take.s.balances[bob][Dubi] = 2 /\ take.s.nonces[bob] = 1
           /\ take.s.orders[alice][1].id = 0
           /\ make.err = ERR_NONE
           /\ make.s.orders[bob][1].id = 1 /\ make.s.nonces[bob] = 1
           /\ cancel.err = ERR_NONE
           /\ cancel.s.orders[alice][1].id = 0
           /\ cancel.s.balances[alice][Dubi] = 1 - 1 + 2
           /\ cancel.s.nonces[alice] = 2
           /\ native.err = ERR_NONE
           /\ native.s.orders[alice][2].pair = EtherPurpose
           /\ native.s.balances[booster][ZERO_ADDRESS] = MintAmount - 1
           /\ native.s.balances[alice][ZERO_ADDRESS] = balances[alice][ZERO_ADDRESS]

\* ------------------------------------------------------------------ C36
\* the makerValue of the first n orders of a maker that offer the asset
RECURSIVE offered(_, _, _)
offered(os, contractAddress, n) ==
    IF n = 0 THEN 0
    ELSE offered(os, contractAddress, n - 1)
         + (IF os[n].id # 0 /\ os[n].pair.makerContractAddress = contractAddress
               /\ os[n].pair.makerCurrencyType # ERC721
            THEN os[n].makerValue ELSE 0)

\* what the existing orders of all makers, visible or hidden, offer of the asset
escrow(contractAddress) ==
    offered(orders[alice], contractAddress, Len(orders[alice]))
    + offered(orders[bob], contractAddress, Len(orders[bob]))

\* an existing order offers the collectible
isOffered(tokenId) ==
    \E a \in Accounts : \E i \in DOMAIN orders[a] :
        /\ orders[a][i].id # 0
        /\ orders[a][i].pair.makerCurrencyType = ERC721
        /\ orders[a][i].makerValue = tokenId

\* C36: in every reachable state the exchange holds of DUBI, of PRPS and of
\* native currency exactly the sum of makerValue over the existing orders,
\* visible or hidden, whose maker asset it is, and it owns a collectible
\* exactly when an existing order offers it as its maker asset.
C36_Escrow ==
    /\ \A t \in FungibleTokens \cup {ZERO_ADDRESS} : balances[DUBIEX][t] = escrow(t)
    /\ \A tokenId \in TokenIds : heroOwner[tokenId] = DUBIEX <=> isOffered(tokenId)

\* alice's order 1 offers her collectible and her hidden order 2, created
\* behind it, offers two DUBI: the exchange owns the collectible and holds
\* the two DUBI
C36_Witness ==
    /\ orders[alice][1].id = 1 /\ orders[alice][1].pair = HeroesPurpose
    /\ orders[alice][2].id = 2 /\ orders[alice][2].isHidden
    /\ orders[alice][2].pair = DubiPurpose /\ orders[alice][2].makerValue = 2
    /\ heroOwner[1] = DUBIEX
    /\ balances[DUBIEX][Dubi] = 2 /\ balances[alice][Dubi] = MintAmount - 2

C38_ChainLinks ==
    \A maker \in Accounts : \A i \in DOMAIN orders[maker] :
        LET B == orders[maker][i] IN
        B.id # 0
        => /\ B.id = i
           /\ B.isHidden => B.ancestorOrderId # 0
           /\ B.ancestorOrderId # 0
              => /\ B.ancestorOrderId < B.id
                 /\ getOrder(State, maker, B.ancestorOrderId).id # 0
                    => getOrder(State, maker, B.ancestorOrderId).successorOrderId = B.id
                 /\ \A j \in DOMAIN orders[maker] \ {i} :
                       orders[maker][j].id # 0
                       => orders[maker][j].ancestorOrderId # B.ancestorOrderId

\* alice's order 1 is gone after it revealed order 2, which is visible, still
\* names 1 as its ancestor and has the hidden order 3 as its successor
C38_Witness ==
    /\ orders[alice][1].id = 0
    /\ orders[alice][2].id = 2 /\ ~orders[alice][2].isHidden
    /\ orders[alice][2].ancestorOrderId = 1 /\ orders[alice][2].successorOrderId = 3
    /\ orders[alice][3].id = 3 /\ orders[alice][3].isHidden
    /\ orders[alice][3].ancestorOrderId = 2
    /\ balances[bob][Dubi] > 0

\* ------------------------------------------------------------------ C39
\* what the maker holds of the asset an order offers
makerHolds(s, maker, o) ==
    IF o.pair.makerCurrencyType = ERC721
    THEN (IF s.heroOwner[o.makerValue] = maker THEN 1 ELSE 0)
    ELSE s.balances[maker][o.pair.makerContractAddress]

\* what the cancel of the order gives back
returned(o) == IF o.pair.makerCurrencyType = ERC721 THEN 1 ELSE o.makerValue

\* C39: in every reachable state, with the kill switch off or on, the direct
\* cancel by its maker of any existing order, visible or hidden, filled in
\* part or not, with its ancestor existing or gone, succeeds, leaves the order
\* absent and every other order as it was, and returns to the maker what the
\* order still offers. So from every reachable state each existing order can
\* reach the absent state by one call of its maker.
C39_MakerCanWithdraw ==
    \A maker \in Accounts : \A i \in DOMAIN orders[maker] :
        LET o == orders[maker][i]
            r == callCancelOrder(State, killSwitchIsOn, maker, CancelOrderInput(maker, i))
        IN  o.id # 0
            => /\ r.err = ERR_NONE
               /\ r.s.orders = [orders EXCEPT ![maker][i] = nullOrder]
               /\ makerHolds(r.s, maker, o) = makerHolds(State, maker, o) + returned(o)

\* the kill switch is on and alice's hidden order 2 has lost its ancestor:
\* her cancel of it succeeds and returns its DUBI, and bob's cancel of it
\* returns them to her as well
C39_Witness ==
    /\ killSwitchIsOn
    /\ orders[alice][1].id = 0
    /\ orders[alice][2].id = 2 /\ orders[alice][2].isHidden
    /\ orders[alice][2].ancestorOrderId = 1 /\ orders[alice][2].pair = DubiPurpose
    /\ LET r == callCancelOrder(State, killSwitchIsOn, alice, CancelOrderInput(alice, 2))
       IN  /\ r.err = ERR_NONE
           /\ r.s.orders[alice][2].id = 0
           /\ r.s.balances[alice][Dubi] = balances[alice][Dubi] + orders[alice][2].makerValue
           /\ r.s.balances[DUBIEX][Dubi] = 0

====
